---- MODULE Spec2Model ----
(***************************************************************************)
(* cobrayaml: a YAML command tree is validated (ValidateConfig), loaded    *)
(* into a CommandBuilder (NewCommandBuilder), bound to handlers            *)
(* (RegisterFunction), built into a cobra command tree (BuildRootCommand)  *)
(* and invoked (cobra's positional-argument check at Execute).             *)
(*                                                                         *)
(* Strings the code inspects character by character (use, map keys, flag   *)
(* names, paths) are sequences of one-character strings; "" is <<>>.       *)
(* Enumerated tags (args type, flag type) are TLA+ strings.  A Go pointer  *)
(* or (value, error) slot is a sequence of length 0 (nil) or 1.            *)
(***************************************************************************)
EXTENDS Integers, Sequences, FiniteSets, TLC

VARIABLES config, cb, tree, last, held, disk

vars == <<config, cb, tree, last, held, disk>>

\* ---------------------------------------------------------------- bounds
\* largest number of positional arguments of an invocation
MaxArgs == 3
\* largest value of the count / min / max fields of an args object
MaxCount == 2
\* longest flag list of a node
MaxFlags == 3
\* longest default text of an int flag
MaxDefault == 3
\* longest flag name turned into an identifier
MaxName == 3

\* ---------------------------------------------------------------- strings
EmptyMap == [k \in {} |-> <<>>]

IsSpace(c) == c \in {" ", "\t", "\n"}

RECURSIVE SkipSpace(_)
SkipSpace(s) ==
  IF s # <<>> /\ IsSpace(Head(s)) THEN SkipSpace(Tail(s)) ELSE s

RECURSIVE TakeWord(_)
TakeWord(s) ==
  IF s = <<>> \/ IsSpace(Head(s)) THEN <<>> ELSE <<Head(s)>> \o TakeWord(Tail(s))

\* strings.Fields: the maximal runs of non-space characters, in order
RECURSIVE Fields(_)
Fields(s) ==
  LET t == SkipSpace(s) IN
  IF t = <<>> THEN <<>>
  ELSE LET w == TakeWord(t) IN <<w>> \o Fields(SubSeq(t, Len(w) + 1, Len(t)))

RECURSIVE Flatten(_)
Flatten(ss) == IF ss = <<>> THEN <<>> ELSE Head(ss) \o Flatten(Tail(ss))

\* every order in which Go may range over a map with key set S
Orders(S) ==
  { o \in [1..Cardinality(S) -> S] : \A i, j \in 1..Cardinality(S) : o[i] = o[j] => i = j }

\* ---------------------------------------------------------------- config model
ArgsTypeNone  == "none"
ArgsTypeAny   == "any"
ArgsTypeExact == "exact"
ArgsTypeMin   == "min"
ArgsTypeMax   == "max"
ArgsTypeRange == "range"

SupportedArgsTypes ==
  {ArgsTypeNone, ArgsTypeAny, ArgsTypeExact, ArgsTypeMin, ArgsTypeMax, ArgsTypeRange}

ArgsConfig(t, c, mn, mx) == [type |-> t, count |-> c, min |-> mn, max |-> mx]

FlagConfig(n, sh, t, d, u) ==
  [name |-> n, shorthand |-> sh, type |-> t, default |-> d, usage |-> u,
   required |-> FALSE, persistent |-> FALSE, hidden |-> FALSE]

CommandConfig(u, s) ==
  [use |-> u, aliases |-> <<>>, short |-> s, long |-> <<>>, args |-> <<>>,
   run_func |-> <<>>, flags |-> <<>>, commands |-> EmptyMap, hidden |-> FALSE]

ToolConfig(n, r, cs) ==
  [name |-> n, description |-> <<>>, version |-> <<>>, root |-> r, commands |-> cs]

\* ---------------------------------------------------------------- validator
RootPath == <<"r", "o", "o", "t">>

Violation(k, p, n, t, mn, mx) ==
  [kind |-> k, path |-> p, name |-> n, type |-> t, min |-> mn, max |-> mx]

validateToolConfig(c) ==
  IF c.name = <<>> THEN <<Violation("tool_name_required", <<>>, <<>>, "", 0, 0)>> ELSE <<>>

\* a plausible slip: the membership test without its negation
unsupportedArgsType_Inverted(a) == a.type # "" /\ a.type \in SupportedArgsTypes

\* the condition of the invalid-args-type violation
unsupportedArgsType(a) == a.type # "" /\ a.type \notin SupportedArgsTypes

\* a plausible slip: the range case without its min <= max check
rangeViolations_NoOrderCheck(a, cmdPath) ==
  (IF a.min < 0
     THEN <<Violation("range_min_ge_0", cmdPath, <<>>, "", 0, 0)>> ELSE <<>>)
  \o (IF a.max < 1
     THEN <<Violation("range_max_ge_1", cmdPath, <<>>, "", 0, 0)>> ELSE <<>>)

\* case ArgsTypeRange of validateArgsConfig
rangeViolations(a, cmdPath) ==
  (IF a.min < 0
     THEN <<Violation("range_min_ge_0", cmdPath, <<>>, "", 0, 0)>> ELSE <<>>)
  \o (IF a.max < 1
     THEN <<Violation("range_max_ge_1", cmdPath, <<>>, "", 0, 0)>> ELSE <<>>)
  \o (IF a.min > a.max
     THEN <<Violation("range_min_le_max", cmdPath, <<>>, "", a.min, a.max)>>
     ELSE <<>>)

validateArgsConfig(args, cmdPath) ==
  IF args = <<>> THEN <<>>
  ELSE LET a == args[1] IN
    (IF unsupportedArgsType(a)
       THEN <<Violation("invalid_args_type", cmdPath, <<>>, a.type, 0, 0)>> ELSE <<>>)
    \o
    (CASE a.type = ArgsTypeExact ->
            IF a.count < 1
              THEN <<Violation("exact_count_ge_1", cmdPath, <<>>, "", 0, 0)>> ELSE <<>>
       [] a.type = ArgsTypeMin ->
            IF a.min < 0
              THEN <<Violation("min_min_ge_0", cmdPath, <<>>, "", 0, 0)>> ELSE <<>>
       [] a.type = ArgsTypeMax ->
            IF a.max < 1
              THEN <<Violation("max_max_ge_1", cmdPath, <<>>, "", 0, 0)>> ELSE <<>>
       [] a.type = ArgsTypeRange -> rangeViolations(a, cmdPath)
       [] OTHER -> <<>>)

\* a plausible slip: return at the first missing field
validateCommandConfig_StopAtFirst(c, path) ==
  IF c.use = <<>> THEN <<Violation("use_required", path, <<>>, "", 0, 0)>>
  ELSE IF c.short = <<>> THEN <<Violation("short_required", path, <<>>, "", 0, 0)>>
  ELSE validateArgsConfig(c.args, path)

validateCommandConfig(c, path) ==
  (IF c.use = <<>> THEN <<Violation("use_required", path, <<>>, "", 0, 0)>> ELSE <<>>)
  \o (IF c.short = <<>> THEN <<Violation("short_required", path, <<>>, "", 0, 0)>> ELSE <<>>)
  \o validateArgsConfig(c.args, path)

validateFlag(flag, cmdPath) ==
  (IF flag.name = <<>>
     THEN <<Violation("flag_name_required", cmdPath, <<>>, "", 0, 0)>> ELSE <<>>)
  \o (IF flag.type = ""
     THEN <<Violation("flag_type_required", cmdPath, flag.name, "", 0, 0)>> ELSE <<>>)
  \o (IF flag.usage = <<>>
     THEN <<Violation("flag_usage_required", cmdPath, flag.name, "", 0, 0)>> ELSE <<>>)

validateFlags(flags, cmdPath) ==
  Flatten([i \in 1..Len(flags) |-> validateFlag(flags[i], cmdPath)])

\* a plausible slip: compare with every other flag, not only the earlier ones
SeenFlagName_AnyOther(flags, i) ==
  \E j \in (1..Len(flags)) \ {i} : flags[j].name # <<>> /\ flags[j].name = flags[i].name

\* the names / shorthands maps hold the non-empty values of the flags before i
SeenFlagName(flags, i) ==
  \E j \in 1..(i - 1) : flags[j].name # <<>> /\ flags[j].name = flags[i].name

SeenFlagShorthand(flags, i) ==
  \E j \in 1..(i - 1) :
    flags[j].shorthand # <<>> /\ flags[j].shorthand = flags[i].shorthand

validateFlagDuplicates(flags, cmdPath) ==
  Flatten([i \in 1..Len(flags) |->
    (IF flags[i].name # <<>> /\ SeenFlagName(flags, i)
       THEN <<Violation("duplicate_flag_name", cmdPath, flags[i].name, "", 0, 0)>>
       ELSE <<>>)
    \o (IF flags[i].shorthand # <<>> /\ SeenFlagShorthand(flags, i)
       THEN <<Violation("duplicate_flag_shorthand", cmdPath, flags[i].shorthand, "", 0, 0)>>
       ELSE <<>>)])

extractCommandName(use) ==
  IF use = <<>> THEN <<>>
  ELSE LET parts == Fields(use) IN IF Len(parts) > 0 THEN parts[1] ELSE <<>>

\* a plausible slip: tell siblings apart by their map key
SiblingName_KeyOnly(cmds, name) == name

\* cmdName of the range loops: the use-derived name, else the map key
SiblingName(cmds, name) ==
  LET cmdName == extractCommandName(cmds[name].use) IN
  IF cmdName = <<>> THEN name ELSE cmdName

\* commandNames[cmdName] after the keys ord[1..i-1] were visited
SeenCommandName(cmds, ord, i) ==
  \E j \in 1..(i - 1) : SiblingName(cmds, ord[j]) = SiblingName(cmds, ord[i])

RECURSIVE validateCommandRecursive(_, _)
RECURSIVE validateSubcommands(_, _, _, _)

\* the set of error lists the call may append: one per iteration order of the maps
validateCommandRecursive(c, path) ==
  LET own == validateCommandConfig(c, path)
             \o validateFlags(c.flags, path)
             \o validateFlagDuplicates(c.flags, path)
  IN { own \o rest :
         rest \in UNION { validateSubcommands(c.commands, path, ord, 1) :
                            ord \in Orders(DOMAIN c.commands) } }

validateSubcommands(cmds, path, ord, i) ==
  IF i > Len(ord) THEN {<<>>}
  ELSE LET name == ord[i]
           subPath == path \o <<"/">> \o name
           dup == IF SeenCommandName(cmds, ord, i)
                    THEN <<Violation("duplicate_subcommand_name", path,
                                     SiblingName(cmds, name), "", 0, 0)>>
                    ELSE <<>>
       IN { dup \o sub \o rest :
              sub \in validateCommandRecursive(cmds[name], subPath),
              rest \in validateSubcommands(cmds, path, ord, i + 1) }

RECURSIVE validateTopLevel(_, _, _)
validateTopLevel(cmds, ord, i) ==
  IF i > Len(ord) THEN {<<>>}
  ELSE LET name == ord[i]
           dup == IF SeenCommandName(cmds, ord, i)
                    THEN <<Violation("duplicate_command_name", <<>>,
                                     SiblingName(cmds, name), "", 0, 0)>>
                    ELSE <<>>
       IN { dup \o sub \o rest :
              sub \in validateCommandRecursive(cmds[name], name),
              rest \in validateTopLevel(cmds, ord, i + 1) }

\* ve.Errors at the end of ValidateConfig, for every iteration order
ValidationErrors(c) ==
  LET head == validateToolConfig(c)
              \o validateCommandConfig(c.root, RootPath)
              \o validateFlags(c.root.flags, RootPath)
              \o validateFlagDuplicates(c.root.flags, RootPath)
  IN { head \o rest :
         rest \in UNION { validateTopLevel(c.commands, ord, 1) :
                            ord \in Orders(DOMAIN c.commands) } }

\* a plausible slip: an off-by-one in the emptiness test
hasErrors_MoreThanOne(errors) == Len(errors) > 1

hasErrors(errors) == Len(errors) > 0

\* the returned error: nil (<<>>) or the aggregate ValidationError
ValidateConfig(c) ==
  { IF hasErrors(errors) THEN <<[Errors |-> errors]>> ELSE <<>> :
      errors \in ValidationErrors(c) }

\* ---------------------------------------------------------------- tree builder
\* values a client may register; a Handler has type func(*cobra.Command, []string) error
Handlers == {"h1", "h2"}
FuncValues == Handlers \cup {"notfunc"}

\* the type assertion fn.(func(*cobra.Command, []string) error)
IsRunE(fn) == fn \in Handlers

BuildError(k, n, t) == [kind |-> k, name |-> n, type |-> t, wrap |-> <<>>]

\* fmt.Errorf("failed to build (sub)command %s: %v", name, err)
WrapError(name, e) == [e EXCEPT !.wrap = <<name>> \o @]

\* a plausible slip: a name missing from the registry leaves the command without action
lookupRunFunc_IgnoreMissing(funcMap, runFunc) ==
  IF runFunc = <<>> \/ runFunc \notin DOMAIN funcMap THEN [RunE |-> <<>>, err |-> <<>>]
  ELSE IF IsRunE(funcMap[runFunc])
    THEN [RunE |-> <<funcMap[runFunc]>>, err |-> <<>>]
    ELSE [RunE |-> <<>>, err |-> <<BuildError("type_mismatch", runFunc, "")>>]

\* the run_func step of BuildRootCommand (245-256) and of buildCommand (288-299)
lookupRunFunc(funcMap, runFunc) ==
  IF runFunc = <<>> THEN [RunE |-> <<>>, err |-> <<>>]
  ELSE IF runFunc \in DOMAIN funcMap
    THEN IF IsRunE(funcMap[runFunc])
           THEN [RunE |-> <<funcMap[runFunc]>>, err |-> <<>>]
           ELSE [RunE |-> <<>>, err |-> <<BuildError("type_mismatch", runFunc, "")>>]
    ELSE [RunE |-> <<>>, err |-> <<BuildError("not_registered", runFunc, "")>>]

PositionalArgs(k, n, m) == [kind |-> k, n |-> n, m |-> m]

\* cmd.Args after setArgs; <<>> is a nil validator
setArgs(args) ==
  IF args = <<>> THEN <<>>
  ELSE LET a == args[1] IN
    CASE a.type = ArgsTypeNone  -> <<PositionalArgs("NoArgs", 0, 0)>>
      [] a.type = ArgsTypeAny   -> <<PositionalArgs("ArbitraryArgs", 0, 0)>>
      [] a.type = ArgsTypeExact -> <<PositionalArgs("ExactArgs", a.count, 0)>>
      [] a.type = ArgsTypeMin   -> <<PositionalArgs("MinimumNArgs", a.min, 0)>>
      [] a.type = ArgsTypeMax   -> <<PositionalArgs("MaximumNArgs", a.max, 0)>>
      [] a.type = ArgsTypeRange -> <<PositionalArgs("RangeArgs", a.min, a.max)>>
      [] OTHER -> <<>>

\* cobra's Command.ValidateArgs on k positional arguments: TRUE when it returns nil
ValidateArgs(Args, k) ==
  IF Args = <<>> THEN TRUE
  ELSE LET v == Args[1] IN
    CASE v.kind = "NoArgs"        -> k = 0
      [] v.kind = "ArbitraryArgs" -> TRUE
      [] v.kind = "ExactArgs"     -> k = v.n
      [] v.kind = "MinimumNArgs"  -> k >= v.n
      [] v.kind = "MaximumNArgs"  -> k <= v.n
      [] v.kind = "RangeArgs"     -> k >= v.n /\ k <= v.m

\* ---- flag defaults
Digits == [c \in {"0", "1", "2", "3", "4", "5", "6", "7", "8", "9"} |->
             CASE c = "0" -> 0 [] c = "1" -> 1 [] c = "2" -> 2 [] c = "3" -> 3
               [] c = "4" -> 4 [] c = "5" -> 5 [] c = "6" -> 6 [] c = "7" -> 7
               [] c = "8" -> 8 [] c = "9" -> 9]

\* the longest prefix of s made of the characters fmt scans for %d
RECURSIVE ScanNumber(_)
ScanNumber(s) ==
  IF s # <<>> /\ (Head(s) \in DOMAIN Digits \/ Head(s) = "_")
    THEN <<Head(s)>> \o ScanNumber(Tail(s)) ELSE <<>>

RECURSIVE ParseDecimal(_, _)
ParseDecimal(tok, acc) ==
  IF tok = <<>> THEN acc ELSE ParseDecimal(Tail(tok), 10 * acc + Digits[Head(tok)])

\* fmt's SkipSpace for Sscanf: blanks are skipped, a newline is not
RECURSIVE ScanSkipSpace(_)
ScanSkipSpace(s) ==
  IF s # <<>> /\ Head(s) \in {" ", "\t"} THEN ScanSkipSpace(Tail(s)) ELSE s

\* fmt.Sscanf(s, "%d", &v): leading blanks skipped, an optional sign, the digits
\* that follow; the text after the number is not looked at
Sscanf(s) ==
  LET t == ScanSkipSpace(s)
      neg == t # <<>> /\ Head(t) = "-"
      u == IF t # <<>> /\ Head(t) \in {"+", "-"} THEN Tail(t) ELSE t
      tok == ScanNumber(u)
  IN IF tok = <<>> \/ \E i \in 1..Len(tok) : tok[i] = "_"
       THEN [ok |-> FALSE, value |-> 0]
       ELSE [ok |-> TRUE,
             value |-> IF neg THEN 0 - ParseDecimal(tok, 0) ELSE ParseDecimal(tok, 0)]

Flag(f, dflt) ==
  [name |-> f.name, shorthand |-> f.shorthand, type |-> f.type, usage |-> f.usage,
   default |-> dflt, required |-> FALSE, hidden |-> FALSE]

DefaultValue(s, b, i) == [s |-> s, b |-> b, i |-> i]

\* a plausible slip: a type the switch does not know registered as a string flag
newFlag_UnknownAsString(f) ==
  CASE f.type = "string" ->
         [flag |-> <<Flag(f, DefaultValue(f.default, FALSE, 0))>>, err |-> <<>>]
    [] f.type = "bool" ->
         [flag |-> <<Flag(f, DefaultValue(<<>>, f.default = <<"t", "r", "u", "e">>, 0))>>,
          err |-> <<>>]
    [] f.type = "int" ->
         IF f.default = <<>>
           THEN [flag |-> <<Flag(f, DefaultValue(<<>>, FALSE, 0))>>, err |-> <<>>]
           ELSE IF Sscanf(f.default).ok
             THEN [flag |-> <<Flag(f, DefaultValue(<<>>, FALSE, Sscanf(f.default).value))>>,
                   err |-> <<>>]
             ELSE [flag |-> <<>>,
                   err |-> <<BuildError("invalid_int_default", f.name, "")>>]
    [] f.type = "stringSlice" ->
         [flag |-> <<Flag(f, DefaultValue(<<>>, FALSE, 0))>>, err |-> <<>>]
    [] OTHER ->
         [flag |-> <<Flag(f, DefaultValue(f.default, FALSE, 0))>>, err |-> <<>>]

\* a plausible slip: the bool default read the way strconv.ParseBool reads it
newFlag_ParseBool(f) ==
  CASE f.type = "string" ->
         [flag |-> <<Flag(f, DefaultValue(f.default, FALSE, 0))>>, err |-> <<>>]
    [] f.type = "bool" ->
         [flag |-> <<Flag(f, DefaultValue(<<>>,
                     f.default \in {<<"t", "r", "u", "e">>, <<"T", "R", "U", "E">>,
                                    <<"T", "r", "u", "e">>, <<"1">>, <<"t">>, <<"T">>}, 0))>>,
          err |-> <<>>]
    [] f.type = "int" ->
         IF f.default = <<>>
           THEN [flag |-> <<Flag(f, DefaultValue(<<>>, FALSE, 0))>>, err |-> <<>>]
           ELSE IF Sscanf(f.default).ok
             THEN [flag |-> <<Flag(f, DefaultValue(<<>>, FALSE, Sscanf(f.default).value))>>,
                   err |-> <<>>]
             ELSE [flag |-> <<>>,
                   err |-> <<BuildError("invalid_int_default", f.name, "")>>]
    [] f.type = "stringSlice" ->
         [flag |-> <<Flag(f, DefaultValue(<<>>, FALSE, 0))>>, err |-> <<>>]
    [] OTHER ->
         [flag |-> <<>>, err |-> <<BuildError("unsupported_flag_type", <<>>, f.type)>>]

\* the registration switch of addFlags: the flag to add, or the error returned
newFlag(f) ==
  CASE f.type = "string" ->
         [flag |-> <<Flag(f, DefaultValue(f.default, FALSE, 0))>>, err |-> <<>>]
    [] f.type = "bool" ->
         [flag |-> <<Flag(f, DefaultValue(<<>>, f.default = <<"t", "r", "u", "e">>, 0))>>,
          err |-> <<>>]
    [] f.type = "int" ->
         IF f.default = <<>>
           THEN [flag |-> <<Flag(f, DefaultValue(<<>>, FALSE, 0))>>, err |-> <<>>]
           ELSE IF Sscanf(f.default).ok
             THEN [flag |-> <<Flag(f, DefaultValue(<<>>, FALSE, Sscanf(f.default).value))>>,
                   err |-> <<>>]
             ELSE [flag |-> <<>>,
                   err |-> <<BuildError("invalid_int_default", f.name, "")>>]
    [] f.type = "stringSlice" ->
         [flag |-> <<Flag(f, DefaultValue(<<>>, FALSE, 0))>>, err |-> <<>>]
    [] OTHER ->
         [flag |-> <<>>, err |-> <<BuildError("unsupported_flag_type", <<>>, f.type)>>]

\* a pflag.FlagSet is a function from flag name to Flag
AddFlag(flagSet, fl) ==
  [n \in DOMAIN flagSet \cup {fl.name} |-> IF n = fl.name THEN fl ELSE flagSet[n]]

\* addFlags from flag i on; st = [flags, pflags, err] is the command's two flag sets
\* (cmd.Flags() and cmd.PersistentFlags()) so far
RECURSIVE addFlagsFrom(_, _, _)
addFlagsFrom(flags, i, st) ==
  IF i > Len(flags) THEN st
  ELSE LET f == flags[i]
           nf == newFlag(f)
       IN IF nf.err # <<>> THEN [st EXCEPT !.err = nf.err]
          ELSE LET reg == IF f.persistent
                            THEN [st EXCEPT !.pflags = AddFlag(@, nf.flag[1])]
                            ELSE [st EXCEPT !.flags = AddFlag(@, nf.flag[1])]
               IN \* cmd.MarkFlagRequired looks the name up in cmd.Flags()
                  IF f.required /\ f.name \notin DOMAIN reg.flags
                    THEN [reg EXCEPT !.err = <<BuildError("mark_required", f.name, "")>>]
                  ELSE LET req == IF f.required
                                    THEN [reg EXCEPT !.flags[f.name].required = TRUE]
                                    ELSE reg
                           \* flagSet.MarkHidden looks it up in the set it was added to
                           hid == IF ~f.hidden THEN req
                                  ELSE IF f.persistent
                                    THEN [req EXCEPT !.pflags[f.name].hidden = TRUE]
                                    ELSE [req EXCEPT !.flags[f.name].hidden = TRUE]
                       IN addFlagsFrom(flags, i + 1, hid)

addFlags(flags) ==
  addFlagsFrom(flags, 1, [flags |-> EmptyMap, pflags |-> EmptyMap, err |-> <<>>])

\* a cobra.Command
Command(use, aliases, short, long, hidden, version, Args, RunE, fs) ==
  [Use |-> use, Aliases |-> aliases, Short |-> short, Long |-> long, Hidden |-> hidden,
   Version |-> version, Args |-> Args, RunE |-> RunE,
   flags |-> fs.flags, pflags |-> fs.pflags, commands |-> EmptyMap, addr |-> <<>>]

\* cmd.AddCommand(sub); children are told apart by the map key they were built from
AddCommand(cmd, name, sub) ==
  [cmd EXCEPT !.commands =
     [n \in DOMAIN cmd.commands \cup {name} |-> IF n = name THEN sub ELSE cmd.commands[n]]]

BuildResult(cmd, err) == [cmd |-> cmd, err |-> err]

RECURSIVE buildCommand(_, _)
RECURSIVE buildSubcommands(_, _, _, _, _)

\* the results buildCommand may return, one per iteration order of the maps
buildCommand(funcMap, c) ==
  LET rf == lookupRunFunc(funcMap, c.run_func)
      fs == addFlags(c.flags)
      cmd == Command(c.use, c.aliases, c.short, c.long, c.hidden, <<>>,
                     setArgs(c.args), rf.RunE, fs)
  IN IF rf.err # <<>> THEN {BuildResult(<<>>, rf.err)}
     ELSE IF fs.err # <<>> THEN {BuildResult(<<>>, fs.err)}
     ELSE UNION { buildSubcommands(funcMap, c.commands, ord, 1, cmd) :
                    ord \in Orders(DOMAIN c.commands) }

\* the range loop over the child map, from the i-th key of the order on
buildSubcommands(funcMap, cmds, ord, i, cmd) ==
  IF i > Len(ord) THEN {BuildResult(<<cmd>>, <<>>)}
  ELSE UNION {
         IF r.err # <<>>
           THEN {BuildResult(<<>>, <<WrapError(ord[i], r.err[1])>>)}
           ELSE buildSubcommands(funcMap, cmds, ord, i + 1, AddCommand(cmd, ord[i], r.cmd[1]))
         : r \in buildCommand(funcMap, cmds[ord[i]]) }

\* the results BuildRootCommand may return for a builder
BuildRootCommand(b) ==
  LET c == b.config
      rf == lookupRunFunc(b.funcMap, c.root.run_func)
      fs == addFlags(c.root.flags)
      rootCmd == Command(c.root.use, <<>>, c.root.short, c.root.long, FALSE, c.version,
                         <<>>, rf.RunE, fs)
  IN IF rf.err # <<>> THEN {BuildResult(<<>>, rf.err)}
     ELSE IF fs.err # <<>> THEN {BuildResult(<<>>, fs.err)}
     ELSE UNION { buildSubcommands(b.funcMap, c.commands, ord, 1, rootCmd) :
                    ord \in Orders(DOMAIN c.commands) }

\* ---------------------------------------------------------------- builder API
Builder(c) == [config |-> c, funcMap |-> EmptyMap]

\* what ValidateConfig lets through: (builder, nil) or (nil, err), per iteration order
newBuilder(c) ==
  { IF v # <<>> THEN [builder |-> <<>>, verr |-> v, err |-> <<>>]
                ELSE [builder |-> <<Builder(c)>>, verr |-> <<>>, err |-> <<>>] :
      v \in ValidateConfig(c) }

\* yaml is "malformed" or "document" (a text that unmarshals into c)
NewCommandBuilderFromString(yaml, c) ==
  IF yaml = "malformed"
    THEN {[builder |-> <<>>, verr |-> <<>>, err |-> <<BuildError("unmarshal", <<>>, "")>>]}
    ELSE newBuilder(c)

\* file is "unreadable", or the content of the file at configPath
NewCommandBuilder(file, c) ==
  IF file = "unreadable"
    THEN {[builder |-> <<>>, verr |-> <<>>, err |-> <<BuildError("read_file", <<>>, "")>>]}
    ELSE NewCommandBuilderFromString(file, c)

\* a plausible slip: a name that is already registered keeps its first value
RegisterFunction_KeepsFirst(b, name, fn) ==
  [b EXCEPT !.funcMap =
     [n \in DOMAIN b.funcMap \cup {name} |->
        IF n \in DOMAIN b.funcMap THEN b.funcMap[n] ELSE fn]]

RegisterFunction(b, name, fn) ==
  [b EXCEPT !.funcMap =
     [n \in DOMAIN b.funcMap \cup {name} |-> IF n = name THEN fn ELSE b.funcMap[n]]]

\* the commands of a built tree, each named by the chain of map keys leading to it
RECURSIVE TreePaths(_)
TreePaths(cmd) ==
  {<<>>} \cup UNION { { <<k>> \o p : p \in TreePaths(cmd.commands[k]) } :
                        k \in DOMAIN cmd.commands }

RECURSIVE CommandAt(_, _)
CommandAt(cmd, p) == IF p = <<>> THEN cmd ELSE CommandAt(cmd.commands[Head(p)], Tail(p))

\* ---- identity of the built commands
\* every &cobra.Command{} of one build is a new object: the commands of a build get the
\* addresses <<k, path>>, k being a number no tree that is still referenced uses
RECURSIVE Allocate(_, _, _)
Allocate(cmd, k, p) ==
  [cmd EXCEPT !.addr = <<k, p>>,
              !.commands = [n \in DOMAIN cmd.commands |->
                              Allocate(cmd.commands[n], k, p \o <<n>>)]]

\* the addresses of the commands of a tree
Addresses(cmd) == { CommandAt(cmd, p).addr : p \in TreePaths(cmd) }

\* the trees the client still references: the result of the latest build and of the
\* build before it (none when the client keeps no earlier result)
LiveTrees(h) ==
  { r.cmd[1] : r \in { x \in { h.latest[i] : i \in 1..Len(h.latest) }
                                \cup { h.earlier[i] : i \in 1..Len(h.earlier) } :
                            x.cmd # <<>> } }

FreshSerial(live) ==
  CHOOSE k \in 1..(Cardinality(live) + 1) :
    /\ \A a \in live : a[1] # k
    /\ \A j \in 1..(k - 1) : \E a \in live : a[1] = j

\* a plausible slip: the builder memoizes its tree and hands it out again
BuildFresh_Cached(b, h) ==
  IF h.latest # <<>> /\ h.latest[1].cmd # <<>> THEN {h.latest[1]}
  ELSE LET live == UNION { Addresses(t) : t \in LiveTrees(h) } IN
       { IF r.cmd = <<>> THEN r
         ELSE BuildResult(<<Allocate(r.cmd[1], FreshSerial(live), <<>>)>>, r.err) :
           r \in BuildRootCommand(b) }

\* what a BuildRootCommand call returns to a client holding the trees of h
BuildFresh(b, h) ==
  LET live == UNION { Addresses(t) : t \in LiveTrees(h) } IN
  { IF r.cmd = <<>> THEN r
    ELSE BuildResult(<<Allocate(r.cmd[1], FreshSerial(live), <<>>)>>, r.err) :
      r \in BuildRootCommand(b) }

\* the client's record of its builds: h.keeps tells whether it keeps the results
NoBuilds(keeps) == [keeps |-> keeps, latest |-> <<>>, earlier |-> <<>>]

Remember(h, r) ==
  IF h.keeps THEN [h EXCEPT !.latest = <<r>>, !.earlier = h.latest] ELSE h

\* ---- flags of an invocation
\* pflag's FlagSet.AddFlagSet(newSet): every flag of newSet whose name is not yet in the
\* set is added with AddFlag, which panics when the flag's shorthand is already in use
AddFlagSet(st, newSet) ==
  IF st.panic THEN st
  ELSE LET added == { n \in DOMAIN newSet : n \notin DOMAIN st.set }
       IN IF \E n \in added, m \in DOMAIN st.set :
               newSet[n].shorthand # <<>> /\ st.set[m].shorthand = newSet[n].shorthand
            THEN [st EXCEPT !.panic = TRUE]
            ELSE [set |-> [n \in DOMAIN st.set \cup added |->
                             IF n \in DOMAIN st.set THEN st.set[n] ELSE newSet[n]],
                  panic |-> FALSE]

\* cobra's updateParentsPflags: the persistent flags of the ancestors of the command
\* at p, the nearest parent first
RECURSIVE parentsPflags(_, _, _)
parentsPflags(root, p, st) ==
  IF p = <<>> THEN st
  ELSE LET up == SubSeq(p, 1, Len(p) - 1)
       IN parentsPflags(root, up, AddFlagSet(st, CommandAt(root, up).pflags))

\* cobra's mergePersistentFlags on the command at p: its own flags, then its persistent
\* flags, then those of its ancestors
mergePersistentFlags(root, p) ==
  LET c == CommandAt(root, p)
      own == AddFlagSet([set |-> c.flags, panic |-> FALSE], c.pflags)
      inherited == parentsPflags(root, p, [set |-> EmptyMap, panic |-> FALSE])
  IN IF inherited.panic THEN [own EXCEPT !.panic = TRUE]
     ELSE AddFlagSet(own, inherited.set)

\* an invocation of the command at p with flag --n: cobra merges the flag sets of every
\* command on the way from the root to p, then looks the flag up
ParseFlags(root, p, n) ==
  IF \E i \in 0..Len(p) : mergePersistentFlags(root, SubSeq(p, 1, i)).panic THEN "panic"
  ELSE IF n \in DOMAIN mergePersistentFlags(root, p).set THEN "accepted"
  ELSE "unknown_flag"

\* ---------------------------------------------------------------- doc generator
\* byte order of the characters used in map keys
Ord(c) ==
  CASE c = " " -> 0 [] c = "-" -> 1 [] c = "/" -> 2 [] c = "1" -> 3 [] c = "2" -> 4
    [] c = "B" -> 5 [] c = "_" -> 6 [] c = "a" -> 7 [] c = "b" -> 8 [] c = "f" -> 9
    [] c = "g" -> 10 [] c = "o" -> 11 [] c = "r" -> 12 [] c = "s" -> 13 [] c = "t" -> 14
    [] c = "x" -> 15 [] c = "z" -> 16

\* Go's s < t on strings
RECURSIVE StrLess(_, _)
StrLess(s, t) ==
  IF t = <<>> THEN FALSE
  ELSE IF s = <<>> THEN TRUE
  ELSE IF Head(s) = Head(t) THEN StrLess(Tail(s), Tail(t))
  ELSE Ord(Head(s)) < Ord(Head(t))

\* a plausible slip: the names sorted the wrong way round
RECURSIVE SortStrings_Descending(_)
SortStrings_Descending(names) ==
  IF names = {} THEN <<>>
  ELSE LET m == CHOOSE x \in names : \A y \in names \ {x} : StrLess(y, x)
       IN <<m>> \o SortStrings_Descending(names \ {m})

\* sort.Strings on the keys of a map
RECURSIVE SortStrings(_)
SortStrings(names) ==
  IF names = {} THEN <<>>
  ELSE LET m == CHOOSE x \in names : \A y \in names \ {x} : StrLess(x, y)
       IN <<m>> \o SortStrings(names \ {m})

RECURSIVE filterVisibleFlags(_)
filterVisibleFlags(flags) ==
  IF flags = <<>> THEN <<>>
  ELSE (IF Head(flags).hidden THEN <<>> ELSE <<Head(flags)>>) \o filterVisibleFlags(Tail(flags))

CommandDoc(name, cmd, fullPath, depth) ==
  [Name |-> name, Use |-> cmd.use, Short |-> cmd.short, Long |-> cmd.long,
   FullPath |-> fullPath, Aliases |-> cmd.aliases, Flags |-> filterVisibleFlags(cmd.flags),
   Args |-> cmd.args, Subcommands |-> <<>>, Depth |-> depth]

\* the name shown for a command: the first word of use, else the map key
docName(cmd, name) == IF Fields(cmd.use) # <<>> THEN Fields(cmd.use)[1] ELSE name

RECURSIVE collectCommandDoc(_, _, _, _)
RECURSIVE collectSubcommands(_, _, _, _, _)

collectCommandDoc(c, cmd, name, depth) ==
  LET doc == CommandDoc(docName(cmd, name), cmd, c.root.use \o <<" ">> \o cmd.use, depth)
  IN collectSubcommands(c, cmd, SortStrings(DOMAIN cmd.commands), 1, doc)

\* the loop over the sorted subcommand names, from the i-th name on
collectSubcommands(c, cmd, subNames, i, doc) ==
  IF i > Len(subNames) THEN doc
  ELSE LET subCmd == cmd.commands[subNames[i]] IN
       IF subCmd.hidden THEN collectSubcommands(c, cmd, subNames, i + 1, doc)
       ELSE LET subDoc == collectCommandDoc(c, subCmd, subNames[i], doc.Depth + 1)
                moved == [subDoc EXCEPT
                            !.FullPath = doc.FullPath \o <<" ">> \o docName(subCmd, subNames[i])]
            IN collectSubcommands(c, cmd, subNames, i + 1,
                 [doc EXCEPT !.Subcommands = Append(@, moved)])

\* a plausible slip: the subcommands of a hidden command documented in its place
RECURSIVE collectCommands_HoistsChildren(_, _, _)
collectCommands_HoistsChildren(c, cmdNames, i) ==
  IF i > Len(cmdNames) THEN <<>>
  ELSE (IF c.commands[cmdNames[i]].hidden
          THEN collectCommandDoc(c, c.commands[cmdNames[i]], cmdNames[i], 0).Subcommands
          ELSE <<collectCommandDoc(c, c.commands[cmdNames[i]], cmdNames[i], 0)>>)
       \o collectCommands_HoistsChildren(c, cmdNames, i + 1)

RECURSIVE collectCommands(_, _, _)
collectCommands(c, cmdNames, i) ==
  IF i > Len(cmdNames) THEN <<>>
  ELSE (IF c.commands[cmdNames[i]].hidden THEN <<>>
        ELSE <<collectCommandDoc(c, c.commands[cmdNames[i]], cmdNames[i], 0)>>)
       \o collectCommands(c, cmdNames, i + 1)

collectDocsConfig(c) ==
  [ToolName |-> c.name, ToolDescription |-> c.description, Version |-> c.version,
   RootCommand |-> CommandDoc(c.root.use, c.root, <<>>, 0),
   Commands |-> collectCommands(c, SortStrings(DOMAIN c.commands), 1)]

\* ---- the rendered text, line by line
Line(kind, n, text) == [kind |-> kind, n |-> n, text |-> text, cells |-> <<>>]
Blank == Line("blank", 0, <<>>)
\* a line holding one value of the document: empty when the value is
TextLine(kind, text) == IF text = <<>> THEN Blank ELSE Line(kind, 0, text)

\* the lines a value written by the user takes: one per line of the value, the value
\* being cut at its newline characters
NL == "\n"
RECURSIVE SplitAtNewline(_, _)
SplitAtNewline(text, cur) ==
  IF text = <<>> THEN <<cur>>
  ELSE IF Head(text) = NL THEN <<cur>> \o SplitAtNewline(Tail(text), <<>>)
  ELSE SplitAtNewline(Tail(text), Append(cur, Head(text)))
TextLines(kind, text) ==
  LET parts == SplitAtNewline(text, <<>>)
  IN [i \in 1..Len(parts) |-> TextLine(kind, parts[i])]

FlagRow(f) ==
  [kind |-> "row", n |-> 0, text |-> f.name,
   cells |-> <<f.shorthand, f.type, f.default, f.usage, f.required>>]

RECURSIVE FlagRows(_)
FlagRows(flags) ==
  IF flags = <<>> THEN <<>> ELSE <<FlagRow(Head(flags))>> \o FlagRows(Tail(flags))

FlagTable(flags) ==
  <<Blank, Line("table_head", 0, <<>>), Line("table_rule", 0, <<>>)>> \o FlagRows(flags)

\* the text argsDescription gives for an args object
argsDescription(args) ==
  CASE args.type = ArgsTypeNone  -> [kind |-> "arguments", n |-> 0, text |-> <<>>, cells |-> <<"none">>]
    [] args.type = ArgsTypeAny   -> [kind |-> "arguments", n |-> 0, text |-> <<>>, cells |-> <<"any">>]
    [] args.type = ArgsTypeExact -> [kind |-> "arguments", n |-> 0, text |-> <<>>, cells |-> <<"exact", args.count>>]
    [] args.type = ArgsTypeMin   -> [kind |-> "arguments", n |-> 0, text |-> <<>>, cells |-> <<"min", args.min>>]
    [] args.type = ArgsTypeMax   -> [kind |-> "arguments", n |-> 0, text |-> <<>>, cells |-> <<"max", args.max>>]
    [] args.type = ArgsTypeRange -> [kind |-> "arguments", n |-> 0, text |-> <<>>, cells |-> <<"range", args.min, args.max>>]
    [] OTHER                     -> [kind |-> "arguments", n |-> 0, text |-> <<>>, cells |-> <<>>]

\* the template "command"
RECURSIVE commandTemplate(_)
RECURSIVE commandTemplates(_)
commandTemplate(doc) ==
  <<Line("heading", doc.Depth + 3, doc.Name), Blank>>
  \o TextLines("short", doc.Short)
  \o <<Blank,
       Line("fence", 0, <<>>), TextLine("code", doc.FullPath), Line("fence", 0, <<>>), Blank>>
  \o (IF doc.Long # <<>> THEN TextLines("long", doc.Long) \o <<Blank>> ELSE <<>>)
  \o (IF doc.Aliases # <<>> THEN <<Line("aliases", 0, doc.Aliases), Blank>> ELSE <<>>)
  \o (IF doc.Args # <<>> THEN <<argsDescription(doc.Args[1]), Blank>> ELSE <<>>)
  \o (IF doc.Flags # <<>> THEN <<Line("flags", 0, <<>>)>> \o FlagTable(doc.Flags) ELSE <<>>)
  \o (IF doc.Subcommands # <<>> THEN <<Blank>> \o commandTemplates(doc.Subcommands) ELSE <<>>)

commandTemplates(docs) ==
  IF docs = <<>> THEN <<>> ELSE commandTemplate(Head(docs)) \o commandTemplates(Tail(docs))

\* the template "docs"
docsTemplate(d) ==
  <<Line("title", 1, d.ToolName), Blank>>
  \o TextLines("description", d.ToolDescription)
  \o <<Blank,
    TextLine("version", d.Version), Blank,
    Line("section", 2, <<"Installation">>), Blank,
    Line("fence", 0, <<>>), Line("install", 0, d.ToolName), Line("fence", 0, <<>>), Blank,
    Line("section", 2, <<"Usage">>), Blank,
    Line("fence", 0, <<>>),
    IF d.RootCommand.Use = <<>> /\ d.Commands = <<>> THEN Blank
    ELSE [kind |-> "usage", n |-> 0, text |-> d.RootCommand.Use, cells |-> <<d.Commands # <<>>>>],
    Line("fence", 0, <<>>), Blank>>
  \o TextLines("long", d.RootCommand.Long)
  \o <<Blank>>
  \o (IF d.RootCommand.Flags # <<>>
        THEN <<Line("global_flags", 3, <<>>)>> \o FlagTable(d.RootCommand.Flags)
        ELSE <<>>)
  \o <<Blank, Blank, Line("section", 2, <<"Commands">>), Blank>>
  \o commandTemplates(d.Commands)
  \o <<Blank>>

\* the clean-up loop run to its end: a blank line that another blank line
\* follows is dropped, so no run of blank lines longer than one is left
FollowedByBlank(lines) ==
  [i \in 1..Len(lines) |->
     [line |-> lines[i], followed |-> i < Len(lines) /\ lines[i + 1] = Blank]]
IsKeptLine(x) == ~(x.line = Blank /\ x.followed)
cleanBlankLines(lines) ==
  LET kept == SelectSeq(FollowedByBlank(lines), IsKeptLine)
  IN [i \in 1..Len(kept) |-> kept[i].line]

renderDocsTemplate(d) == cleanBlankLines(docsTemplate(d))

\* ---- the rendered text, character by character
\* the characters of one line: what the user wrote for a user-written line, one
\* character standing for the fixed text of any other line
WrittenKinds == {"description", "short", "long"}
LineText(l) ==
  IF l = Blank THEN <<>>
  ELSE IF l.kind \in WrittenKinds THEN l.text
  ELSE <<"#">>
String(lines) == Flatten([i \in 1..Len(lines) |-> LineText(lines[i]) \o <<NL>>])

\* strings.Contains
Contains(s, substr) ==
  \E i \in 1..(Len(s) - Len(substr) + 1) : SubSeq(s, i, i + Len(substr) - 1) = substr

\* strings.ReplaceAll for a non-empty old: the matches taken from the left, none
\* overlapping another
RECURSIVE ReplaceAll(_, _, _)
ReplaceAll(s, old, new) ==
  IF Len(s) < Len(old) THEN s
  ELSE IF SubSeq(s, 1, Len(old)) = old
    THEN new \o ReplaceAll(SubSeq(s, Len(old) + 1, Len(s)), old, new)
  ELSE <<Head(s)>> \o ReplaceAll(Tail(s), old, new)

\* a plausible slip: one pass of the replacement instead of the loop
cleanupLoop_OnePass(result, passes) ==
  IF ~Contains(result, <<NL, NL, NL>>) THEN [text |-> result, exits |-> TRUE]
  ELSE [text |-> ReplaceAll(result, <<NL, NL, NL>>, <<NL, NL>>), exits |-> TRUE]

\* the loop  for strings.Contains(result, "\n\n\n") { result = strings.ReplaceAll(...) }
\* followed for at most the given number of passes: exits tells that the loop was
\* left by its own condition
RECURSIVE cleanupLoop(_, _)
cleanupLoop(result, passes) ==
  IF ~Contains(result, <<NL, NL, NL>>) THEN [text |-> result, exits |-> TRUE]
  ELSE IF passes = 0 THEN [text |-> result, exits |-> FALSE]
  ELSE cleanupLoop(ReplaceAll(result, <<NL, NL, NL>>, <<NL, NL>>), passes - 1)

GenerateDocs(c) == renderDocsTemplate(collectDocsConfig(c))

\* ---------------------------------------------------------------- code generator
LowerCase ==
  <<"a", "b", "c", "d", "e", "f", "g", "h", "i", "j", "k", "l", "m",
    "n", "o", "p", "q", "r", "s", "t", "u", "v", "w", "x", "y", "z">>
UpperCase ==
  <<"A", "B", "C", "D", "E", "F", "G", "H", "I", "J", "K", "L", "M",
    "N", "O", "P", "Q", "R", "S", "T", "U", "V", "W", "X", "Y", "Z">>

IndexOf(letters, c) == CHOOSE i \in 1..Len(letters) : letters[i] = c

ToLower(c) ==
  IF \E i \in 1..Len(UpperCase) : UpperCase[i] = c THEN LowerCase[IndexOf(UpperCase, c)] ELSE c

ToUpper(c) ==
  IF \E i \in 1..Len(LowerCase) : LowerCase[i] = c THEN UpperCase[IndexOf(LowerCase, c)] ELSE c

IsSeparator(c) == c \in {"-", "_"}

\* the tokens of s between separators, cur being the token under construction
RECURSIVE splitName(_, _)
splitName(s, cur) ==
  IF s = <<>> THEN <<cur>>
  ELSE IF IsSeparator(Head(s)) THEN <<cur>> \o splitName(Tail(s), <<>>)
  ELSE splitName(Tail(s), Append(cur, Head(s)))

lowerFirst(tok) == IF tok = <<>> THEN <<>> ELSE <<ToLower(Head(tok))>> \o Tail(tok)
upperFirst(tok) == IF tok = <<>> THEN <<>> ELSE <<ToUpper(Head(tok))>> \o Tail(tok)

\* a plausible slip: every token capitalised, the first one included
toCamelCase_UpperFirstToken(s) ==
  LET parts == splitName(s, <<>>)
  IN Flatten([i \in 1..Len(parts) |-> upperFirst(parts[i])])

toCamelCase(s) ==
  LET parts == splitName(s, <<>>)
  IN Flatten([i \in 1..Len(parts) |->
                IF i = 1 THEN lowerFirst(parts[i]) ELSE upperFirst(parts[i])])

FuncInfo(cmd) == [Name |-> cmd.run_func, Flags |-> cmd.flags, Args |-> cmd.args]

\* the descriptor of a node, if it declares a run_func
ownFunction(cmd) == IF cmd.run_func # <<>> THEN <<FuncInfo(cmd)>> ELSE <<>>

RECURSIVE collectFromCommand(_)
RECURSIVE collectFromCommands(_, _, _)

collectFromCommand(cmd) ==
  ownFunction(cmd) \o collectFromCommands(cmd.commands, SortStrings(DOMAIN cmd.commands), 1)

\* the loop over the sorted command names, from the i-th name on
collectFromCommands(cmds, names, i) ==
  IF i > Len(names) THEN <<>>
  ELSE collectFromCommand(cmds[names[i]]) \o collectFromCommands(cmds, names, i + 1)

CollectFunctions(c) ==
  ownFunction(c.root) \o collectFromCommands(c.commands, SortStrings(DOMAIN c.commands), 1)

\* a statement of a generated handler body
Stmt(kind, ident, index, call, key) ==
  [kind |-> kind, ident |-> ident, index |-> index, call |-> call, key |-> key]

flagGetter(type) ==
  CASE type = "string" -> <<"GetString">>
    [] type = "bool" -> <<"GetBool">>
    [] type = "int" -> <<"GetInt">>
    [] type = "stringSlice" -> <<"GetStringSlice">>
    [] OTHER -> <<>>

RECURSIVE flagStmts(_)
flagStmts(flags) ==
  IF flags = <<>> THEN <<>>
  ELSE (IF flagGetter(Head(flags).type) = <<>> THEN <<>>
        ELSE <<Stmt("flag", toCamelCase(Head(flags).name), 0,
                    flagGetter(Head(flags).type)[1], Head(flags).name)>>)
       \o flagStmts(Tail(flags))

\* a plausible slip: one extraction statement too many
argSlots_OneMore(args) ==
  IF args = <<>> THEN 0
  ELSE CASE args[1].type = ArgsTypeExact -> IF args[1].count > 0 THEN args[1].count + 1 ELSE 0
         [] args[1].type \in {ArgsTypeMin, ArgsTypeRange} ->
              IF args[1].min > 0 THEN args[1].min ELSE 0
         [] OTHER -> 0

\* how many leading positional arguments the arity policy guarantees
argSlots(args) ==
  IF args = <<>> THEN 0
  ELSE CASE args[1].type = ArgsTypeExact -> IF args[1].count > 0 THEN args[1].count ELSE 0
         [] args[1].type \in {ArgsTypeMin, ArgsTypeRange} ->
              IF args[1].min > 0 THEN args[1].min ELSE 0
         [] OTHER -> 0

argStmts(args) == [i \in 1..argSlots(args) |-> Stmt("arg", <<"arg">>, i - 1, "args", <<>>)]

useStmts(decls) == [i \in 1..Len(decls) |-> Stmt("use", decls[i].ident, decls[i].index, "", <<>>)]

\* the skeleton of one handler: getters, placeholder uses, return nil
handlerSkeleton(fn) ==
  LET decls == flagStmts(fn.Flags) \o argStmts(fn.Args)
  IN [Name |-> fn.Name,
      Body |-> decls \o useStmts(decls) \o <<Stmt("return", <<>>, 0, "nil", <<>>)>>]

GenResult(code, err) == [code |-> code, err |-> err]

\* a plausible slip: nothing to generate reported as an empty success
GenerateHandlers_EmptySuccess(c, pkg) ==
  LET funcs == CollectFunctions(c)
  IN GenResult(<<[package |-> pkg,
                  handlers |-> [i \in 1..Len(funcs) |-> handlerSkeleton(funcs[i])]]>>, <<>>)

GenerateHandlers(c, pkg) ==
  LET funcs == CollectFunctions(c)
  IN IF funcs = <<>> THEN GenResult(<<>>, <<"no functions">>)
     ELSE GenResult(<<[package |-> pkg,
                       handlers |-> [i \in 1..Len(funcs) |-> handlerSkeleton(funcs[i])]]>>, <<>>)

\* ---------------------------------------------------------------- gen command
\* bootstrap source text: the config file to load and the functions to register
GenerateMain(c, pkg, configFile) ==
  LET funcs == CollectFunctions(c)
  IN IF funcs = <<>> THEN GenResult(<<>>, <<"no functions">>)
     ELSE GenResult(<<[package |-> pkg, configFile |-> configFile,
                       registrations |-> [i \in 1..Len(funcs) |-> funcs[i].Name]]>>, <<>>)

\* a file: the user's own text, or generated source text
File(kind, text) == [kind |-> kind, text |-> text]
Original == File("original", <<>>)

\* the two output paths: the file there, if any, and whether a write there succeeds
Files(h, m, hw, mw) ==
  [handlers |-> h, main |-> m, handlersWritable |-> hw, mainWritable |-> mw]
\* no output file yet, in a directory the command cannot write to
ReadOnlyDir == Files(<<>>, <<>>, FALSE, FALSE)

ToFileResult(file, err) == [file |-> file, err |-> err]

\* os.WriteFile of generated text, after a successful generation
WriteFile(gen, old, writable) ==
  IF gen.err # <<>> THEN ToFileResult(old, gen.err)
  ELSE IF ~writable THEN ToFileResult(old, <<"write">>)
  ELSE ToFileResult(<<File("generated", gen.code)>>, <<>>)

GenerateHandlersToFile(c, pkg, files) ==
  WriteFile(GenerateHandlers(c, pkg), files.handlers, files.handlersWritable)

GenerateMainToFile(c, pkg, configFile, files) ==
  WriteFile(GenerateMain(c, pkg, configFile), files.main, files.mainWritable)

PackageName == "main"
ConfigFileName == "commands.yaml"

CmdResult(files, err, out) == [fs |-> files, err |-> err, out |-> out]

\* a plausible slip: the preview taken only when both files exist
genCmd_PreviewWhenBothExist(load, c, pkg, force, files) ==
  IF load # "document" THEN CmdResult(files, <<"load">>, "")
  ELSE
    LET handlersExist == files.handlers # <<>>
        mainExist == files.main # <<>>
    IN IF (handlersExist /\ mainExist) /\ ~force
       THEN LET code == GenerateHandlers(c, pkg)
                mainCode == GenerateMain(c, pkg, ConfigFileName)
            IN IF code.err # <<>> THEN CmdResult(files, code.err, "warning")
               ELSE IF mainCode.err # <<>> THEN CmdResult(files, mainCode.err, "warning")
               ELSE CmdResult(files, <<>>, "preview")
       ELSE
         LET h == IF ~handlersExist \/ force
                  THEN GenerateHandlersToFile(c, pkg, files)
                  ELSE ToFileResult(files.handlers, <<>>)
             afterH == [files EXCEPT !.handlers = h.file]
             m == IF ~mainExist \/ force
                  THEN GenerateMainToFile(c, pkg, ConfigFileName, afterH)
                  ELSE ToFileResult(files.main, <<>>)
         IN IF h.err # <<>> THEN CmdResult(files, h.err, "")
            ELSE IF m.err # <<>> THEN CmdResult(afterH, m.err, "handlers")
            ELSE CmdResult([afterH EXCEPT !.main = m.file], <<>>, "handlers+main")

genCmd(load, c, pkg, force, files) ==
  IF load # "document" THEN CmdResult(files, <<"load">>, "")
  ELSE
    LET handlersExist == files.handlers # <<>>
        mainExist == files.main # <<>>
    IN IF (handlersExist \/ mainExist) /\ ~force
       THEN LET code == GenerateHandlers(c, pkg)
                mainCode == GenerateMain(c, pkg, ConfigFileName)
            IN IF code.err # <<>> THEN CmdResult(files, code.err, "warning")
               ELSE IF mainCode.err # <<>> THEN CmdResult(files, mainCode.err, "warning")
               ELSE CmdResult(files, <<>>, "preview")
       ELSE
         LET h == IF ~handlersExist \/ force
                  THEN GenerateHandlersToFile(c, pkg, files)
                  ELSE ToFileResult(files.handlers, <<>>)
             afterH == [files EXCEPT !.handlers = h.file]
             m == IF ~mainExist \/ force
                  THEN GenerateMainToFile(c, pkg, ConfigFileName, afterH)
                  ELSE ToFileResult(files.main, <<>>)
         IN IF h.err # <<>> THEN CmdResult(files, h.err, "")
            ELSE IF m.err # <<>> THEN CmdResult(afterH, m.err, "handlers")
            ELSE CmdResult([afterH EXCEPT !.main = m.file], <<>>, "handlers+main")

\* ---------------------------------------------------------------- inputs
A == <<"a">>
B == <<"b">>
F == <<"f">>
G == <<"g">>
S == <<"s">>
T == <<"t">>

FuncNames == {F, G}
FlagNames == {F, G}

Root == CommandConfig(T, S)

OneCommand(k, c) == [n \in {k} |-> c]
TwoCommands(c1, c2) == [n \in {A, B} |-> IF n = A THEN c1 ELSE c2]

IntRange == (0 - 1)..MaxCount
ArgsTypes == SupportedArgsTypes \cup {"", "invalid_type"}

ArgsObjects ==
  {<<>>}
  \cup { <<ArgsConfig(t, c, 0, 0)>> : t \in ArgsTypes, c \in IntRange }
  \cup { <<ArgsConfig(t, 0, mn, mx)>> : t \in ArgsTypes, mn \in IntRange, mx \in IntRange }

\* an args object on the root, on a top-level command, on a nested command
ArgsConfigs ==
  { ToolConfig(T, [Root EXCEPT !.args = a], EmptyMap) : a \in ArgsObjects }
  \cup { ToolConfig(T, Root, OneCommand(A, [CommandConfig(A, S) EXCEPT !.args = a])) :
           a \in ArgsObjects }
  \cup { ToolConfig(T, Root,
           OneCommand(A, [CommandConfig(A, S) EXCEPT
                            !.commands = OneCommand(B, [CommandConfig(B, S) EXCEPT !.args = a])])) :
           a \in ArgsObjects }

\* sibling names: two top-level commands a and b, and under a either nothing or two
\* subcommands a and b, every use drawn from UseSet
UseSet == { <<>>, <<" ">>, A, B, <<"b", " ", "x">> }

SiblingPairs ==
  { TwoCommands(CommandConfig(u1, S), CommandConfig(u2, S)) : u1 \in UseSet, u2 \in UseSet }

NamesConfigs ==
  { ToolConfig(T, Root, top) : top \in SiblingPairs }
  \cup { ToolConfig(T, Root, [top EXCEPT ![A].commands = sub]) :
           top \in SiblingPairs, sub \in SiblingPairs }

\* required fields: tool name, use and short of the root, short of a, b and a/a
HeadConfigs ==
  { ToolConfig(n, CommandConfig(u, s),
      TwoCommands([CommandConfig(A, sa) EXCEPT !.commands = OneCommand(A, CommandConfig(A, saa))],
                  CommandConfig(B, sb))) :
      n \in {<<>>, T}, u \in {<<>>, T}, s \in {<<>>, S},
      sa \in {<<>>, S}, sb \in {<<>>, S}, saa \in {<<>>, S} }

\* flag lists of up to n flags over two names and two shorthands
FlagShapes ==
  { FlagConfig(n, sh, "string", <<>>, S) : n \in {<<>>, F, G}, sh \in {<<>>, <<"x">>, <<"y">>} }

FlagLists(n) == UNION { [1..k -> FlagShapes] : k \in 0..n }

\* a flag with a missing type, a missing usage, nothing at all
PartialFlags ==
  { FlagConfig(n, <<>>, t, <<>>, u) : n \in {<<>>, F}, t \in {"", "string"}, u \in {<<>>, S} }

FlagsConfigs(n) ==
  { ToolConfig(T, [Root EXCEPT !.flags = l],
               OneCommand(A, [CommandConfig(A, S) EXCEPT !.flags = m])) :
      l \in FlagLists(n), m \in {<<>>, <<FlagConfig(F, <<"x">>, "string", <<>>, S)>>} }
  \cup { ToolConfig(T, Root, OneCommand(A, [CommandConfig(A, S) EXCEPT !.flags = l])) :
           l \in FlagLists(n) }

\* incomplete flags on the root and on a, next to an args object of a
PartialConfigs ==
  { ToolConfig(T, [Root EXCEPT !.flags = <<f1>>],
               OneCommand(A, [CommandConfig(A, S) EXCEPT !.flags = <<f2, f1>>, !.args = a])) :
      f1 \in PartialFlags, f2 \in PartialFlags,
      a \in {<<>>, <<ArgsConfig("exact", 0, 0, 0)>>, <<ArgsConfig("range", 0, 2, 1)>>} }

\* run_func on the root, on a, on b and on a/a, alone or next to a flag that fails
\* to register (on the root, on a or on b)
FailingFlags ==
  { <<>>,
    <<[n \in {"root"} |-> <<FlagConfig(F, <<>>, "float", <<>>, S)>>]>>,
    <<[n \in {"a"} |-> <<FlagConfig(F, <<>>, "int", <<"x">>, S)>>]>>,
    <<[n \in {"b"} |->
        <<[FlagConfig(F, <<>>, "bool", <<>>, S) EXCEPT !.required = TRUE, !.persistent = TRUE]>>]>> }

FlagsFor(ff, n) == IF ff # <<>> /\ n \in DOMAIN ff[1] THEN ff[1][n] ELSE <<>>

HandlerConfigs ==
  { ToolConfig(T, [Root EXCEPT !.run_func = r, !.flags = FlagsFor(ff, "root")],
      TwoCommands(
        [CommandConfig(A, S) EXCEPT
           !.run_func = ra, !.flags = FlagsFor(ff, "a"),
           !.commands = OneCommand(A, [CommandConfig(A, S) EXCEPT !.run_func = raa])],
        [CommandConfig(B, S) EXCEPT !.run_func = rb, !.flags = FlagsFor(ff, "b")])) :
      r \in {<<>>, F}, ra \in {<<>>, F, G}, rb \in {<<>>, G}, raa \in {<<>>, F, G},
      ff \in FailingFlags }

\* required, persistent and hidden flags: at most one flag on the root, on a and on
\* a/a; b has none
MarkedFlag(n, sh, req, pers, hid) ==
  [FlagConfig(n, sh, "string", <<>>, S) EXCEPT
     !.required = req, !.persistent = pers, !.hidden = hid]

RootMarkedFlags ==
  {<<>>} \cup { <<MarkedFlag(F, <<"x">>, req, pers, hid)>> :
                  req \in BOOLEAN, pers \in BOOLEAN, hid \in BOOLEAN }

ChildMarkedFlags ==
  {<<>>} \cup { <<MarkedFlag(n, sh, FALSE, pers, FALSE)>> :
                  n \in {F, G}, sh \in {<<>>, <<"x">>}, pers \in BOOLEAN }

MarkConfigs ==
  { ToolConfig(T, [Root EXCEPT !.flags = rf],
      TwoCommands(
        [CommandConfig(A, S) EXCEPT
           !.flags = af,
           !.commands = OneCommand(A, [CommandConfig(A, S) EXCEPT !.flags = aaf])],
        CommandConfig(B, S))) :
      rf \in RootMarkedFlags, af \in ChildMarkedFlags,
      aaf \in {<<>>, <<MarkedFlag(G, <<"x">>, FALSE, FALSE, TRUE)>>} }

\* an int flag n on the command a, its default any text of up to MaxDefault characters
DefaultChars == {"1", "2", "-", "x", " "}
IntDefaults == UNION { [1..n -> DefaultChars] : n \in 0..MaxDefault }

TypedFlag(n, t, d) == FlagConfig(n, <<>>, t, d, S)

IntConfigs ==
  { ToolConfig(T, Root, OneCommand(A, [CommandConfig(A, S) EXCEPT
                                          !.flags = <<TypedFlag(F, "int", d)>>])) :
      d \in IntDefaults }

\* a bool or stringSlice flag f on the root or on the command a, with a default text
BoolDefaults ==
  { <<>>, <<"t", "r", "u", "e">>, <<"T", "R", "U", "E">>, <<"T", "r", "u", "e">>,
    <<"1">>, <<"t">>, <<"y", "e", "s">>, <<"f", "a", "l", "s", "e">>,
    <<"t", "r", "u", "e", " ">>, <<" ", "t", "r", "u", "e">> }

BoolConfigs ==
  { ToolConfig(T, [Root EXCEPT !.flags = <<TypedFlag(F, t, d)>>], OneCommand(A, CommandConfig(A, S))) :
      t \in {"bool", "stringSlice"}, d \in BoolDefaults }
  \cup { ToolConfig(T, Root, OneCommand(A, [CommandConfig(A, S) EXCEPT
                                               !.flags = <<TypedFlag(F, t, d), TypedFlag(G, "bool", e)>>])) :
           t \in {"bool", "stringSlice"}, d \in BoolDefaults, e \in {<<>>, <<"t", "r", "u", "e">>} }

\* run_func on the root and on a, for a client that keeps the results of its two
\* latest builds
FreshConfigs ==
  { ToolConfig(T, [Root EXCEPT !.run_func = r],
      OneCommand(A, [CommandConfig(A, S) EXCEPT !.run_func = ra])) :
      r \in {<<>>, F}, ra \in {<<>>, F, G} }

\* commands three levels deep with hidden commands and hidden flags: a (shown as a or
\* z), its children a and b, the grandchild a/a/a, and the sibling b
Z == <<"z">>

DocConfig(ua, hid) ==
  ToolConfig(T,
    [Root EXCEPT
       !.hidden = "root" \in hid,
       !.flags = <<MarkedFlag(F, <<>>, FALSE, TRUE, "flag" \in hid),
                   MarkedFlag(G, <<>>, FALSE, FALSE, FALSE)>>],
    TwoCommands(
      [CommandConfig(ua, S) EXCEPT
         !.hidden = "a" \in hid,
         !.flags = <<MarkedFlag(F, <<>>, TRUE, FALSE, "flag" \in hid)>>,
         !.commands = TwoCommands(
           [CommandConfig(A, S) EXCEPT
              !.hidden = "a/a" \in hid,
              !.commands = OneCommand(A, CommandConfig(A, S))],
           [CommandConfig(B, S) EXCEPT !.run_func = F, !.hidden = "a/b" \in hid])],
      [CommandConfig(B, S) EXCEPT !.hidden = "b" \in hid]))

\* what is hidden in a document: the root, the flag f of the root and of a, commands
HiddenSets ==
  { {}, {"root"}, {"flag"}, {"a"}, {"a/a"}, {"a/b"}, {"b"}, {"a", "a/a"}, {"flag", "a/b"},
    {"a/a", "b"}, {"root", "flag", "a", "a/a", "a/b", "b"} }

DocConfigs ==
  { DocConfig(Z, hid) : hid \in HiddenSets } \cup { DocConfig(A, hid) : hid \in {{}, {"b"}} }

\* the same tree with flags below a: g on a/b and f on a/a/a
SubtreeConfig(hid) ==
  [DocConfig(Z, hid) EXCEPT
     !.commands[A].commands[B].flags = <<MarkedFlag(G, <<>>, FALSE, FALSE, FALSE)>>,
     !.commands[A].commands[A].commands[A].flags = <<MarkedFlag(F, <<>>, FALSE, FALSE, FALSE)>>]

SubtreeConfigs ==
  { SubtreeConfig(hid) : hid \in { {}, {"a"}, {"a/a"}, {"a/b"}, {"b"}, {"a", "a/a"}, {"flag", "a"} } }

\* handlers to generate: f on the root and g on the command a, a with an args object
\* and a list of typed flags
StubArgs ==
  {<<>>} \cup { <<ArgsConfig(ArgsTypeExact, c, 0, 0)>> : c \in IntRange }
  \cup { <<ArgsConfig(ArgsTypeMin, 0, 1, 0)>>, <<ArgsConfig(ArgsTypeRange, 0, 1, 2)>>,
         <<ArgsConfig(ArgsTypeAny, 0, 0, 0)>> }

StubFlags ==
  { <<>>,
    <<TypedFlag(F, "bool", <<>>)>>,
    <<TypedFlag(F, "string", <<>>), TypedFlag(G, "int", <<>>)>>,
    <<TypedFlag(G, "stringSlice", <<>>), TypedFlag(F, "bool", <<>>)>>,
    <<TypedFlag(F, "int", <<>>), TypedFlag(F, "string", <<>>)>> }

StubConfigs ==
  { ToolConfig(T, [Root EXCEPT !.run_func = F, !.args = ra],
      OneCommand(A, [CommandConfig(A, S) EXCEPT !.run_func = G, !.args = a, !.flags = fl])) :
      ra \in {<<>>, <<ArgsConfig(ArgsTypeExact, 1, 0, 0)>>}, a \in StubArgs, fl \in StubFlags }

\* a flag f of a type the builder may not know, on the root, on a, on a/a, on b, or on
\* a and b, next to handlers on the root and on a/a
TypePlaces == { {"root"}, {"a"}, {"a/a"}, {"b"}, {"a", "b"} }

TypedAt(places, n, t) == IF n \in places THEN <<TypedFlag(F, t, <<>>)>> ELSE <<>>

TypeConfigs ==
  { ToolConfig(T, [Root EXCEPT !.run_func = r, !.flags = TypedAt(w, "root", t)],
      TwoCommands(
        [CommandConfig(A, S) EXCEPT
           !.flags = TypedAt(w, "a", t),
           !.commands = OneCommand(A, [CommandConfig(A, S) EXCEPT
                                        !.run_func = raa, !.flags = TypedAt(w, "a/a", t)])],
        [CommandConfig(B, S) EXCEPT !.flags = TypedAt(w, "b", t)])) :
      r \in {<<>>, F}, raa \in {<<>>, G}, w \in TypePlaces, t \in {"string", "float", "Bool"} }

\* map keys that look like paths: a top-level command keyed root or a/a, next to the
\* command a and its subcommand a; the short of the root, of the top-level commands and
\* of a/a present or missing
KeySets == { {A}, {RootPath}, {A, <<"a", "/", "a">>}, {A, RootPath} }

KeyConfigs ==
  { ToolConfig(T, CommandConfig(T, sr),
      [k \in ks |->
         IF k = A
           THEN [CommandConfig(A, s1) EXCEPT !.commands = OneCommand(A, CommandConfig(A, s2))]
           ELSE CommandConfig(B, s1)]) :
      ks \in KeySets, sr \in {<<>>, S}, s1 \in {<<>>, S}, s2 \in {<<>>, S} }

PackageLabels == {"main"}

\* the gen command: handlers on the root, on a and a/a, or nowhere; each output file
\* absent or holding the user's text, in a directory that can or cannot be written
GenConfigs ==
  { ToolConfig(T, [Root EXCEPT !.run_func = r],
      OneCommand(A, [CommandConfig(A, S) EXCEPT
                       !.run_func = ra,
                       !.commands = OneCommand(A, [CommandConfig(A, S) EXCEPT !.run_func = ra])])) :
      r \in {<<>>, F}, ra \in {<<>>, G} }

OutputDirs ==
  { Files(h, m, hw, mw) :
      h \in {<<>>, <<Original>>}, m \in {<<>>, <<Original>>},
      hw \in BOOLEAN, mw \in BOOLEAN }

\* flag names to turn into identifiers: empty, or a letter followed by letters and
\* separators
NameChars == {"a", "B", "-", "_"}

RECURSIVE Strings(_, _)
Strings(chars, n) ==
  IF n = 0 THEN {<<>>}
  ELSE Strings(chars, n - 1)
       \cup { Append(s, c) : s \in Strings(chars, n - 1), c \in chars }

CamelNames ==
  {<<>>} \cup { <<c>> \o rest : c \in {"a", "B"}, rest \in Strings(NameChars, MaxName - 1) }

\* the named flag sits on the command a, whose handler is g
CamelConfigs ==
  { ToolConfig(T, Root,
      OneCommand(A, [CommandConfig(A, S) EXCEPT
                       !.run_func = G,
                       !.flags = <<FlagConfig(n, <<>>, "string", <<>>, S)>>])) :
      n \in CamelNames }

Ret(op) ==
  [op |-> op, builder |-> <<>>, verr |-> <<>>, err |-> <<>>, cmd |-> <<>>,
   path |-> <<>>, k |-> 0, ok |-> TRUE, flag |-> <<>>, parse |-> "", doc |-> <<>>,
   code |-> <<>>, generr |-> <<>>, force |-> FALSE, out |-> "",
   name |-> <<>>, fn |-> ""]

\* ---------------------------------------------------------------- state machine
\* the config as ValidateConfig, buildCommand and collectDocsConfig leave it: they read
\* its fields and assign to none
configAfterRead(c) == c

\* a plausible slip: the build consumes the registry it looked the handlers up in
funcMapAfterBuild_Emptied(funcMap) == EmptyMap

\* the registry as BuildRootCommand leaves it: lookups only
funcMapAfterBuild(funcMap) == funcMap

\* config: the parsed document; cb: the client's builder; tree: the command tree of
\* the latest build; last: the latest call and what it returned
InitWith(configs) ==
  /\ config \in configs
  /\ cb = <<>>
  /\ tree = <<>>
  /\ last = Ret("none")
  /\ held = NoBuilds(FALSE)
  /\ disk = ReadOnlyDir

CallValidateConfig ==
  /\ \E v \in ValidateConfig(config) :
       last' = [Ret("ValidateConfig") EXCEPT !.verr = v]
  /\ config' = configAfterRead(config)
  /\ UNCHANGED <<cb, tree, held, disk>>

CallNewCommandBuilder ==
  /\ \E file \in {"unreadable", "malformed", "document"} :
       \E r \in NewCommandBuilder(file, config) :
         /\ cb' = r.builder
         /\ last' = [Ret("NewCommandBuilder") EXCEPT
                       !.builder = r.builder, !.verr = r.verr, !.err = r.err]
  /\ tree' = <<>>
  /\ held' = NoBuilds(held.keeps)
  /\ UNCHANGED <<config, disk>>

CallNewCommandBuilderFromString ==
  /\ \E yaml \in {"malformed", "document"} :
       \E r \in NewCommandBuilderFromString(yaml, config) :
         /\ cb' = r.builder
         /\ last' = [Ret("NewCommandBuilderFromString") EXCEPT
                       !.builder = r.builder, !.verr = r.verr, !.err = r.err]
  /\ tree' = <<>>
  /\ held' = NoBuilds(held.keeps)
  /\ UNCHANGED <<config, disk>>

CallRegisterFunction ==
  /\ cb # <<>>
  /\ \E name \in FuncNames, fn \in FuncValues :
       /\ cb' = <<RegisterFunction(cb[1], name, fn)>>
       /\ last' = [Ret("RegisterFunction") EXCEPT !.name = name, !.fn = fn]
  /\ UNCHANGED <<config, tree, held, disk>>

CallBuildRootCommand ==
  /\ cb # <<>>
  /\ \E r \in BuildFresh(cb[1], held) :
       /\ tree' = r.cmd
       /\ last' = [Ret("BuildRootCommand") EXCEPT !.cmd = r.cmd, !.err = r.err]
       /\ held' = Remember(held, r)
  /\ cb' = <<[config |-> configAfterRead(cb[1].config),
              funcMap |-> funcMapAfterBuild(cb[1].funcMap)]>>
  /\ UNCHANGED <<config, disk>>

\* the arity check of an invocation of the command at path p with k positional arguments
CallValidateArgs ==
  /\ tree # <<>>
  /\ \E p \in TreePaths(tree[1]), k \in 0..MaxArgs :
       last' = [Ret("ValidateArgs") EXCEPT
                  !.path = p, !.k = k, !.ok = ValidateArgs(CommandAt(tree[1], p).Args, k)]
  /\ UNCHANGED <<config, cb, tree, held, disk>>

\* the flag lookup of an invocation of the command at path p with the flag --n
CallParseFlags ==
  /\ tree # <<>>
  /\ \E p \in TreePaths(tree[1]), n \in FlagNames :
       last' = [Ret("ParseFlags") EXCEPT
                  !.path = p, !.flag = n, !.parse = ParseFlags(tree[1], p, n)]
  /\ UNCHANGED <<config, cb, tree, held, disk>>

\* GenerateDocs of a Generator made from the document
CallGenerateDocs ==
  /\ last' = [Ret("GenerateDocs") EXCEPT !.doc = GenerateDocs(config)]
  /\ config' = configAfterRead(config)
  /\ UNCHANGED <<cb, tree, held, disk>>

\* GenerateHandlers of a Generator made from the document
CallGenerateHandlers ==
  /\ \E pkg \in PackageLabels :
       LET r == GenerateHandlers(config, pkg)
       IN last' = [Ret("GenerateHandlers") EXCEPT !.code = r.code, !.generr = r.err]
  /\ UNCHANGED <<config, cb, tree, held, disk>>

\* one run of the gen command on the document, with or without --force
CallGenCmd ==
  /\ \E load \in {"unreadable", "document"}, force \in BOOLEAN :
       LET r == genCmd(load, config, PackageName, force, disk)
       IN /\ disk' = r.fs
          /\ last' = [Ret("gen") EXCEPT !.force = force, !.generr = r.err, !.out = r.out]
  /\ UNCHANGED <<config, cb, tree, held>>

Next ==
  \/ CallValidateConfig
  \/ CallNewCommandBuilder
  \/ CallNewCommandBuilderFromString
  \/ CallRegisterFunction
  \/ CallBuildRootCommand
  \/ CallValidateArgs
  \/ CallParseFlags
  \/ CallGenerateDocs
  \/ CallGenerateHandlers
  \/ CallGenCmd

Init == InitWith(ArgsConfigs \cup NamesConfigs \cup HeadConfigs \cup PartialConfigs
                  \cup FlagsConfigs(MaxFlags)
                  \cup HandlerConfigs)
Spec == Init /\ [][Next]_vars

\* the same machine started from one family of documents
InitArgs == InitWith(ArgsConfigs)
SpecArgs == InitArgs /\ [][Next]_vars

InitNames == InitWith(NamesConfigs \cup HeadConfigs \cup PartialConfigs)
SpecNames == InitNames /\ [][Next]_vars

InitFlags == InitWith(FlagsConfigs(MaxFlags))
SpecFlags == InitFlags /\ [][Next]_vars

InitHandlers == InitWith(HandlerConfigs)
SpecHandlers == InitHandlers /\ [][Next]_vars

InitMark == InitWith(MarkConfigs)
SpecMark == InitMark /\ [][Next]_vars

InitFresh ==
  /\ config \in FreshConfigs
  /\ cb = <<>>
  /\ tree = <<>>
  /\ last = Ret("none")
  /\ held = NoBuilds(TRUE)
  /\ disk = ReadOnlyDir
SpecFresh == InitFresh /\ [][Next]_vars

InitDocs == InitWith(DocConfigs)
SpecDocs == InitDocs /\ [][Next]_vars

InitStub == InitWith(StubConfigs)
SpecStub == InitStub /\ [][Next]_vars

InitGen ==
  /\ config \in GenConfigs
  /\ cb = <<>>
  /\ tree = <<>>
  /\ last = Ret("none")
  /\ held = NoBuilds(FALSE)
  /\ disk \in OutputDirs
SpecGen == InitGen /\ [][Next]_vars

InitTypes == InitWith(TypeConfigs)
SpecTypes == InitTypes /\ [][Next]_vars

\* texts a user may write for description and long: with runs of newline characters
\* inside, at the start and at the end
BlankTexts ==
  { <<>>, S, <<"s", NL, "s">>, <<"s", NL, NL>>, <<NL, NL, "s">>,
    <<"s", NL, NL, NL, "s">>, <<NL, NL, NL, NL>>, <<"s", NL, NL, NL, NL, NL, "s">> }

BlankConfigs ==
  { [ToolConfig(T, [Root EXCEPT !.long = rl],
       OneCommand(A, [CommandConfig(A, S) EXCEPT !.long = l, !.run_func = F]))
       EXCEPT !.description = d] :
      d \in BlankTexts, l \in BlankTexts, rl \in {<<>>, <<NL, NL, NL, "s">>} }

InitBlank == InitWith(BlankConfigs)
SpecBlank == InitBlank /\ [][Next]_vars

InitKeys == InitWith(KeyConfigs)
SpecKeys == InitKeys /\ [][Next]_vars

InitSubtree == InitWith(SubtreeConfigs)
SpecSubtree == InitSubtree /\ [][Next]_vars

InitCamel == InitWith(CamelConfigs)
SpecCamel == InitCamel /\ [][Next]_vars

InitBool == InitWith(BoolConfigs)
SpecBool == InitBool /\ [][Next]_vars

InitInt == InitWith(IntConfigs)
SpecInt == InitInt /\ [][Next]_vars

\* ---------------------------------------------------------------- claims: vocabulary
\* the command nodes of a document, each named by its chain of map keys (<<>>: root)
RECURSIVE KeyChains(_)
KeyChains(cmds) ==
  UNION { {<<k>>} \cup { <<k>> \o p : p \in KeyChains(cmds[k].commands) } : k \in DOMAIN cmds }

NodePaths(c) == {<<>>} \cup KeyChains(c.commands)

RECURSIVE Descend(_, _)
Descend(cmds, p) ==
  IF Len(p) = 1 THEN cmds[p[1]] ELSE Descend(cmds[p[1]].commands, Tail(p))

NodeAt(c, p) == IF p = <<>> THEN c.root ELSE Descend(c.commands, p)

\* the path a violation message shows for a node
RECURSIVE JoinKeys(_)
JoinKeys(p) == IF Len(p) = 1 THEN p[1] ELSE p[1] \o <<"/">> \o JoinKeys(Tail(p))

PathString(p) == IF p = <<>> THEN RootPath ELSE JoinKeys(p)

\* the violations of a returned error (none for nil)
ErrorsOf(verr) == IF verr = <<>> THEN <<>> ELSE verr[1].Errors

\* how many entries of a list are the violation of kind k at path ps
CountKind(errors, k, ps) ==
  Cardinality({ i \in 1..Len(errors) : errors[i].kind = k /\ errors[i].path = ps })

\* the arity policy the specification attaches to an args object
ArityPolicy(args, k) ==
  IF args = <<>> THEN TRUE
  ELSE LET a == args[1] IN
    CASE a.type = "none"  -> k = 0
      [] a.type = "any"   -> TRUE
      [] a.type = "exact" -> k = a.count
      [] a.type = "min"   -> k >= a.min
      [] a.type = "max"   -> k <= a.max
      [] a.type = "range" -> a.min <= k /\ k <= a.max
      [] OTHER -> TRUE

HasPolicy(args) == args = <<>> \/ args[1].type \in SupportedArgsTypes

\* the canonical name of a sibling: the first run of non-space characters of its
\* use, and its map key when the use has none
CanonicalName(use, key) ==
  LET nonsp == { i \in 1..Len(use) : use[i] \notin {" ", "\t", "\n"} } IN
  IF nonsp = {} THEN key
  ELSE LET st == CHOOSE i \in nonsp : \A j \in nonsp : i <= j
           en == CHOOSE i \in st..Len(use) :
                   /\ \A j \in st..i : j \in nonsp
                   /\ (i + 1) \notin nonsp
       IN SubSeq(use, st, en)

\* the commands below the node at p; those below the root are the top-level ones
ChildrenOf(c, p) == IF p = <<>> THEN c.commands ELSE NodeAt(c, p).commands

CanonicalNames(cmds) == { CanonicalName(cmds[k].use, k) : k \in DOMAIN cmds }

\* the siblings in cmds whose canonical name is n
Named(cmds, n) == { k \in DOMAIN cmds : CanonicalName(cmds[k].use, k) = n }

\* occurrences of a duplicate-name violation for name n under the parent at p
CountDuplicateName(errors, c, p, n) ==
  Cardinality({ i \in 1..Len(errors) :
    /\ errors[i].name = n
    /\ IF p = <<>>
         THEN errors[i].kind = "duplicate_command_name"
         ELSE errors[i].kind = "duplicate_subcommand_name" /\ errors[i].path = PathString(p) })

NodeKinds ==
  {"use_required", "short_required", "flag_name_required", "flag_type_required",
   "flag_usage_required", "duplicate_flag_name", "duplicate_flag_shorthand",
   "invalid_args_type", "exact_count_ge_1", "min_min_ge_0", "max_max_ge_1",
   "range_min_ge_0", "range_max_ge_1", "range_min_le_max", "duplicate_subcommand_name"}

\* the numeric conditions an args object of this type does not meet
UnmetConditions(a) ==
  (IF a.type = "exact" /\ ~(a.count >= 1) THEN {"exact_count_ge_1"} ELSE {})
  \cup (IF a.type = "min" /\ ~(a.min >= 0) THEN {"min_min_ge_0"} ELSE {})
  \cup (IF a.type = "max" /\ ~(a.max >= 1) THEN {"max_max_ge_1"} ELSE {})
  \cup (IF a.type = "range" /\ ~(a.min >= 0) THEN {"range_min_ge_0"} ELSE {})
  \cup (IF a.type = "range" /\ ~(a.max >= 1) THEN {"range_max_ge_1"} ELSE {})
  \cup (IF a.type = "range" /\ ~(a.min <= a.max) THEN {"range_min_le_max"} ELSE {})

\* how many checks of the given kind fail on the node at p
FailingChecks(c, p, kind) ==
  LET n == NodeAt(c, p)
      fl == n.flags
      idx == 1..Len(fl)
  IN CASE kind = "use_required" -> IF n.use = <<>> THEN 1 ELSE 0
       [] kind = "short_required" -> IF n.short = <<>> THEN 1 ELSE 0
       [] kind = "flag_name_required" -> Cardinality({ i \in idx : fl[i].name = <<>> })
       [] kind = "flag_type_required" -> Cardinality({ i \in idx : fl[i].type = "" })
       [] kind = "flag_usage_required" -> Cardinality({ i \in idx : fl[i].usage = <<>> })
       [] kind = "duplicate_flag_name" ->
            Cardinality({ i \in idx : fl[i].name # <<>>
                                      /\ \E j \in idx : j < i /\ fl[j].name = fl[i].name })
       [] kind = "duplicate_flag_shorthand" ->
            Cardinality({ i \in idx : fl[i].shorthand # <<>>
                                      /\ \E j \in idx : j < i /\ fl[j].shorthand = fl[i].shorthand })
       [] kind = "invalid_args_type" ->
            IF n.args # <<>> /\ n.args[1].type \notin
                 {"", "none", "any", "exact", "min", "max", "range"} THEN 1 ELSE 0
       [] kind = "duplicate_subcommand_name" ->
            IF p = <<>> THEN 0
            ELSE Cardinality(DOMAIN n.commands) - Cardinality(CanonicalNames(n.commands))
       [] OTHER -> IF n.args # <<>> /\ kind \in UnmetConditions(n.args[1]) THEN 1 ELSE 0

FailingTopLevelNames(c) ==
  Cardinality(DOMAIN c.commands) - Cardinality(CanonicalNames(c.commands))

\* no check of the validator fails anywhere in the document
NothingFails(c) ==
  /\ c.name # <<>>
  /\ FailingTopLevelNames(c) = 0
  /\ \A p \in NodePaths(c), kind \in NodeKinds : FailingChecks(c, p, kind) = 0

\* ---------------------------------------------------------------- C1
\* C1: every command of a tree built from a validated config accepts k positional
\* arguments exactly when the arity policy of its node's args object allows k
\* (absent or any: all k; none: 0; exact: count; min: >= min; max: <= max;
\* range: min..max).
C1_ArityMatchesPolicy ==
  (last.op = "ValidateArgs" /\ HasPolicy(NodeAt(cb[1].config, last.path).args))
    => (last.ok <=> ArityPolicy(NodeAt(cb[1].config, last.path).args, last.k))

\* ---------------------------------------------------------------- C2
\* C2: ValidateConfig evaluates every check on every node whatever was already
\* reported: the returned list holds exactly one entry per failing check (tool name;
\* use, short, args of each node; name, type, usage and duplicates of each flag;
\* duplicate sibling names) and nothing else, so an empty tool name is always
\* reported, and empty tool name, root use and root short give at least three entries.
C2_EveryFailingCheckReported ==
  last.op = "ValidateConfig" =>
    LET errors == ErrorsOf(last.verr) IN
    /\ CountKind(errors, "tool_name_required", <<>>) = IF config.name = <<>> THEN 1 ELSE 0
    /\ CountKind(errors, "duplicate_command_name", <<>>) = FailingTopLevelNames(config)
    /\ \A p \in NodePaths(config), kind \in NodeKinds :
         CountKind(errors, kind, PathString(p)) = FailingChecks(config, p, kind)
    /\ \A i \in 1..Len(errors) :
         \/ errors[i].kind \in {"tool_name_required", "duplicate_command_name"}
            /\ errors[i].path = <<>>
         \/ errors[i].kind \in NodeKinds
            /\ \E p \in NodePaths(config) : errors[i].path = PathString(p)
    /\ (config.name = <<>> /\ config.root.use = <<>> /\ config.root.short = <<>>)
         => Len(errors) >= 3

C2_Witness ==
  /\ last.op = "ValidateConfig"
  /\ config.name = <<>> /\ config.root.use = <<>> /\ config.root.short = <<>>
  /\ \E k \in DOMAIN config.commands : config.commands[k].short = <<>>
  /\ Len(ErrorsOf(last.verr)) >= 4
  /\ ErrorsOf(last.verr)[1].kind = "tool_name_required"

\* ---------------------------------------------------------------- C3
\* C3: under every parent (the top level and every command), a duplicate-name
\* violation for a name is reported exactly when two siblings of that parent have
\* that canonical name (first token of use, else the map key); names that are equal
\* only across different parents are not reported.
C3_SiblingNamesUnique ==
  last.op = "ValidateConfig" =>
    \A p \in NodePaths(config) :
      \A n \in CanonicalNames(ChildrenOf(config, p)) \cup {A, B} :
        (CountDuplicateName(ErrorsOf(last.verr), config, p, n) >= 1)
          <=> (Cardinality(Named(ChildrenOf(config, p), n)) >= 2)

\* two siblings below a with different keys, one named by its use and one by its
\* key, collide; the top-level commands carry the same two names and do not
C3_Witness ==
  /\ last.op = "ValidateConfig"
  /\ DOMAIN ChildrenOf(config, <<A>>) = {A, B}
  /\ extractCommandName(ChildrenOf(config, <<A>>)[B].use) = <<>>
  /\ ChildrenOf(config, <<A>>)[A].use = B
  /\ CountDuplicateName(ErrorsOf(last.verr), config, <<A>>, B) = 1
  /\ CountDuplicateName(ErrorsOf(last.verr), config, <<>>, B) = 0
  /\ B \in CanonicalNames(ChildrenOf(config, <<>>))

\* ---------------------------------------------------------------- C4
\* the pairs i < j of flags of a list that agree on a non-empty field
CollidingNamePairs(fl) ==
  { <<i, j>> \in (1..Len(fl)) \X (1..Len(fl)) :
      i < j /\ fl[i].name # <<>> /\ fl[i].name = fl[j].name }

CollidingShorthandPairs(fl) ==
  { <<i, j>> \in (1..Len(fl)) \X (1..Len(fl)) :
      i < j /\ fl[i].shorthand # <<>> /\ fl[i].shorthand = fl[j].shorthand }

\* C4 as stated: within one node's flag list, exactly one duplicate-name violation
\* per colliding pair of flags with equal non-empty name, and one
\* duplicate-shorthand violation per colliding pair with equal non-empty shorthand.
C4_OnePerCollidingPair ==
  last.op = "ValidateConfig" =>
    \A p \in NodePaths(config) :
      /\ CountKind(ErrorsOf(last.verr), "duplicate_flag_name", PathString(p))
           = Cardinality(CollidingNamePairs(NodeAt(config, p).flags))
      /\ CountKind(ErrorsOf(last.verr), "duplicate_flag_shorthand", PathString(p))
           = Cardinality(CollidingShorthandPairs(NodeAt(config, p).flags))

\* occurrences in a node's list of the violation of kind k that names v
CountNamed(errors, k, ps, v) ==
  Cardinality({ i \in 1..Len(errors) :
    errors[i].kind = k /\ errors[i].path = ps /\ errors[i].name = v })

\* C4 amended: within one node's flag list, one duplicate-name violation per flag
\* that repeats the non-empty name of an earlier flag of the same list (a name used
\* n times gives n-1 violations: one for a colliding pair, two for three equal
\* names), likewise for shorthands; empty names and shorthands never collide, and
\* flags of different nodes are not compared.
C4_OnePerRepeatedFlag ==
  last.op = "ValidateConfig" =>
    \A p \in NodePaths(config) :
      LET fl == NodeAt(config, p).flags
          errors == ErrorsOf(last.verr)
      IN \A v \in {<<>>, F, G, <<"x">>, <<"y">>} :
           /\ CountNamed(errors, "duplicate_flag_name", PathString(p), v) =
                IF v # <<>> /\ \E i \in 1..Len(fl) : fl[i].name = v
                  THEN Cardinality({ i \in 1..Len(fl) : fl[i].name = v }) - 1
                  ELSE 0
           /\ CountNamed(errors, "duplicate_flag_shorthand", PathString(p), v) =
                IF v # <<>> /\ \E i \in 1..Len(fl) : fl[i].shorthand = v
                  THEN Cardinality({ i \in 1..Len(fl) : fl[i].shorthand = v }) - 1
                  ELSE 0

\* three flags named f on the root (two violations), a flag named f on a (none)
C4_Witness ==
  /\ last.op = "ValidateConfig"
  /\ Len(config.root.flags) = 3
  /\ \A i \in 1..3 : config.root.flags[i].name = F /\ config.root.flags[i].shorthand = <<>>
  /\ \E k \in DOMAIN config.commands :
       Len(config.commands[k].flags) = 1 /\ config.commands[k].flags[1].name = F
  /\ Len(ErrorsOf(last.verr)) = 2
  /\ CountNamed(ErrorsOf(last.verr), "duplicate_flag_name", RootPath, F) = 2

\* ---------------------------------------------------------------- C5
ArgsViolationKinds ==
  {"exact_count_ge_1", "min_min_ge_0", "max_max_ge_1",
   "range_min_ge_0", "range_max_ge_1", "range_min_le_max"}

\* C5: ValidateConfig reports, for every node's args object, exactly one violation
\* for each numeric condition its type does not meet (exact: count >= 1, min:
\* min >= 0, max: max >= 1, range: min >= 0, max >= 1, min <= max) and none for a
\* condition that is met or that belongs to another type; none/any have none.
C5_ArgsBounds ==
  last.op = "ValidateConfig" =>
    \A p \in NodePaths(config) :
      \A kind \in ArgsViolationKinds :
        CountKind(ErrorsOf(last.verr), kind, PathString(p)) =
          IF NodeAt(config, p).args # <<>>
             /\ kind \in UnmetConditions(NodeAt(config, p).args[1])
            THEN 1 ELSE 0

C5_Witness ==
  /\ last.op = "ValidateConfig"
  /\ \E p \in NodePaths(config) :
       /\ NodeAt(config, p).args # <<>>
       /\ NodeAt(config, p).args[1].type = "range"
       /\ NodeAt(config, p).args[1].min > NodeAt(config, p).args[1].max
       /\ NodeAt(config, p).args[1].min >= 0
       /\ NodeAt(config, p).args[1].max >= 1
       /\ CountKind(ErrorsOf(last.verr), "range_min_le_max", PathString(p)) = 1
       /\ Len(ErrorsOf(last.verr)) = 1

\* ---------------------------------------------------------------- C6
\* C6 as stated: every args object whose type is not one of the six supported
\* values gets an invalid-args-type violation.
C6_EveryOtherTypeReported ==
  last.op = "ValidateConfig" =>
    \A p \in NodePaths(config) :
      (NodeAt(config, p).args # <<>>
       /\ NodeAt(config, p).args[1].type \notin
            {"none", "any", "exact", "min", "max", "range"})
        => CountKind(ErrorsOf(last.verr), "invalid_args_type", PathString(p)) >= 1

\* C6 amended: an args object gets an invalid-args-type violation exactly when its
\* type is non-empty and not one of the six supported values; so in an accepted
\* config every args object has one of the six types or the empty type.
C6_NonEmptyOtherTypeReported ==
  last.op = "ValidateConfig" =>
    /\ \A p \in NodePaths(config) :
         CountKind(ErrorsOf(last.verr), "invalid_args_type", PathString(p)) =
           IF NodeAt(config, p).args # <<>>
              /\ NodeAt(config, p).args[1].type # ""
              /\ NodeAt(config, p).args[1].type \notin
                   {"none", "any", "exact", "min", "max", "range"}
             THEN 1 ELSE 0
    /\ last.verr = <<>> =>
         \A p \in NodePaths(config) :
           NodeAt(config, p).args # <<>> =>
             NodeAt(config, p).args[1].type \in
               {"", "none", "any", "exact", "min", "max", "range"}

C6_Witness ==
  /\ last.op = "ValidateConfig"
  /\ \E p \in NodePaths(config) :
       /\ NodeAt(config, p).args # <<>>
       /\ NodeAt(config, p).args[1].type = "invalid_type"
       /\ CountKind(ErrorsOf(last.verr), "invalid_args_type", PathString(p)) = 1

\* ---------------------------------------------------------------- C7
\* C7: for one and the same config every ValidateConfig call returns the same
\* violations in the same order (the commands mapping is visited in sorted-key order).
C7_SameOrderEveryCall ==
  [][(last.op = "ValidateConfig" /\ last'.op = "ValidateConfig")
       => last'.verr = last.verr]_vars

\* ---------------------------------------------------------------- C8
Constructors == {"NewCommandBuilder", "NewCommandBuilderFromString"}

\* C8: ValidateConfig returns nil exactly when no check fails and otherwise one
\* aggregate ValidationError; a constructor returns a builder exactly when it returns
\* no error, and only for a config in which no check fails; so a builder, and any tree
\* built from it, always rests on a config that passed validation.
C8_AllOrNothing ==
  /\ last.op = "ValidateConfig" =>
       /\ (last.verr = <<>>) <=> NothingFails(config)
       /\ last.verr # <<>> => Len(last.verr[1].Errors) >= 1
  /\ last.op \in Constructors =>
       /\ (last.builder # <<>>) <=> (last.err = <<>> /\ last.verr = <<>>)
       /\ last.builder # <<>> => (last.builder[1].config = config /\ NothingFails(config))
       /\ last.verr # <<>> => (Len(last.verr[1].Errors) >= 1 /\ ~NothingFails(config))
       /\ cb = last.builder
  /\ cb # <<>> => NothingFails(cb[1].config)
  /\ tree # <<>> => cb # <<>>

\* a constructor refused a document with exactly one violation
C8_Witness ==
  /\ last.op \in Constructors
  /\ last.builder = <<>>
  /\ last.err = <<>>
  /\ last.verr # <<>>
  /\ Len(last.verr[1].Errors) = 1
  /\ cb = <<>>

\* ---------------------------------------------------------------- C9
\* C9: the built root command carries the root node's use, aliases, short, long and
\* hidden values and enforces the arity policy of the root node's args object.
C9_RootLikeDescendants ==
  (last.op = "BuildRootCommand" /\ last.cmd # <<>>) =>
    LET r == cb[1].config.root
        cmd == last.cmd[1]
    IN /\ cmd.Use = r.use
       /\ cmd.Aliases = r.aliases
       /\ cmd.Short = r.short
       /\ cmd.Long = r.long
       /\ cmd.Hidden = r.hidden
       /\ HasPolicy(r.args) =>
            \A k \in 0..MaxArgs : ValidateArgs(cmd.Args, k) <=> ArityPolicy(r.args, k)

\* ---------------------------------------------------------------- C10
\* the error the run_func of the node at p must produce: "" when it is bound
RunFuncFailure(b, p) ==
  LET rf == NodeAt(b.config, p).run_func IN
  IF rf = <<>> THEN ""
  ELSE IF rf \notin DOMAIN b.funcMap THEN "not_registered"
  ELSE IF b.funcMap[rf] \notin {"h1", "h2"} THEN "type_mismatch"
  ELSE ""

Unbound(b) == { p \in NodePaths(b.config) : RunFuncFailure(b, p) # "" }

SomeFlagFails(b) ==
  \E p \in NodePaths(b.config) : addFlags(NodeAt(b.config, p).flags).err # <<>>

\* C10 as stated: for every node with a non-empty run_func, if the name is absent
\* from the registry the build fails with a 'not registered' error, if it is bound
\* to a value of another type it fails with a type-mismatch error, in both cases
\* with a nil tree.
C10_EachNodeGetsItsError ==
  last.op = "BuildRootCommand" =>
    \A p \in Unbound(cb[1]) :
      /\ last.cmd = <<>>
      /\ last.err # <<>>
      /\ last.err[1].kind = RunFuncFailure(cb[1], p)

\* C10 amended: if some node (root or descendant) has a non-empty run_func that is
\* absent from the registry or bound to a value of another type, the build returns a
\* nil tree and one error; a 'not registered' or type-mismatch error returned is that
\* of one such node, named by the error's chain of command keys, and it is this
\* node's error whenever it is the only failing step of the build. A tree is returned
\* exactly when no error is, and then every node's action is the registered function
\* (none for an empty run_func, which needs no registry entry).
C10_UnboundRunFuncFailsBuild ==
  last.op = "BuildRootCommand" =>
    LET b == cb[1] IN
    /\ (last.cmd = <<>>) <=> (last.err # <<>>)
    /\ Unbound(b) # {} => last.cmd = <<>>
    /\ (Unbound(b) = {} /\ ~SomeFlagFails(b)) => last.cmd # <<>>
    /\ (last.err # <<>> /\ last.err[1].kind \in {"not_registered", "type_mismatch"}) =>
         \E p \in Unbound(b) :
           /\ last.err[1].wrap = p
           /\ last.err[1].kind = RunFuncFailure(b, p)
           /\ last.err[1].name = NodeAt(b.config, p).run_func
    /\ \A p \in Unbound(b) :
         (Unbound(b) = {p} /\ ~SomeFlagFails(b)) =>
           /\ last.err[1].wrap = p
           /\ last.err[1].kind = RunFuncFailure(b, p)
           /\ last.err[1].name = NodeAt(b.config, p).run_func
    /\ last.cmd # <<>> =>
         \A p \in NodePaths(b.config) :
           CommandAt(last.cmd[1], p).RunE =
             IF NodeAt(b.config, p).run_func = <<>> THEN <<>>
             ELSE <<b.funcMap[NodeAt(b.config, p).run_func]>>

\* the nested command a/a names a function that was never registered, the root's
\* function is bound: the build fails on a/a
C10_Witness ==
  /\ last.op = "BuildRootCommand"
  /\ Unbound(cb[1]) = {<<A, A>>}
  /\ cb[1].config.root.run_func = F
  /\ cb[1].funcMap[F] = "h2"
  /\ last.cmd = <<>>
  /\ last.err[1].kind = "not_registered"
  /\ last.err[1].name = G
  /\ last.err[1].wrap = <<A, A>>

\* ---------------------------------------------------------------- C11
\* C11: a build never fails at the required-marking or hidden-marking step: every flag
\* with a supported type and a parseable default is found by the marking that follows
\* its registration, in the local and in the persistent flag set alike.
C11_MarkingNeverFails ==
  last.op = "BuildRootCommand" =>
    (last.err # <<>> => last.err[1].kind \notin {"mark_required", "mark_hidden"})

\* ---------------------------------------------------------------- C12
\* the nodes of the document that declare a flag named n: all of them, the persistent ones
DeclaredOn(c, p, n) ==
  \E i \in 1..Len(NodeAt(c, p).flags) : NodeAt(c, p).flags[i].name = n

DeclaredPersistentOn(c, p, n) ==
  \E i \in 1..Len(NodeAt(c, p).flags) :
    NodeAt(c, p).flags[i].name = n /\ NodeAt(c, p).flags[i].persistent

\* C12 (registration): in a built tree every flag of a node is in exactly one flag set of
\* its command, the persistent set when persistent is true and the local set otherwise.
C12_OneFlagSetPerFlag ==
  (last.op = "BuildRootCommand" /\ last.cmd # <<>>) =>
    \A p \in NodePaths(cb[1].config) :
      LET fl == NodeAt(cb[1].config, p).flags
          cmd == CommandAt(last.cmd[1], p)
      IN /\ \A i \in 1..Len(fl) :
              /\ fl[i].persistent => fl[i].name \in DOMAIN cmd.pflags \ DOMAIN cmd.flags
              /\ ~fl[i].persistent => fl[i].name \in DOMAIN cmd.flags \ DOMAIN cmd.pflags
         /\ DOMAIN cmd.flags \cup DOMAIN cmd.pflags = { fl[i].name : i \in 1..Len(fl) }

\* C12: an invocation of the command at p accepts the flag n exactly when p declares n or
\* a proper ancestor of p declares n persistent: a persistent flag is accepted by every
\* descendant command, a local flag only by the node that declares it.
C12_PersistentInheritedLocalNot ==
  last.op = "ParseFlags" =>
    LET c == cb[1].config
        inherited == \E i \in 0..(Len(last.path) - 1) :
                       DeclaredPersistentOn(c, SubSeq(last.path, 1, i), last.flag)
    IN (last.parse = "accepted") <=> (DeclaredOn(c, last.path, last.flag) \/ inherited)

\* ---------------------------------------------------------------- C13
\* a base-10 integer literal: an optional sign and one or more digits, nothing else
IsDigits(s) == s # <<>> /\ \A i \in 1..Len(s) : s[i] \in {"0", "1", "2", "3", "4", "5", "6", "7", "8", "9"}

IsIntLiteral(s) ==
  s # <<>> /\ (IF Head(s) \in {"+", "-"} THEN IsDigits(Tail(s)) ELSE IsDigits(s))

RECURSIVE DigitsValue(_)
DigitsValue(s) ==
  IF s = <<>> THEN 0
  ELSE 10 * DigitsValue(SubSeq(s, 1, Len(s) - 1)) + Digits[s[Len(s)]]

IntLiteralValue(s) ==
  IF Head(s) = "-" THEN 0 - DigitsValue(Tail(s))
  ELSE IF Head(s) = "+" THEN DigitsValue(Tail(s))
  ELSE DigitsValue(s)

\* the int flags of the document, as <<node, index>>
IntFlags(c) ==
  { <<p, i>> \in NodePaths(c) \X (1..MaxFlags) :
      i <= Len(NodeAt(c, p).flags) /\ NodeAt(c, p).flags[i].type = "int" }

\* C13: for an int flag the build succeeds exactly when the default is empty (registered
\* default 0) or a base-10 integer literal (registered default that integer); any other
\* default makes the build fail with an 'invalid int default value' error naming the flag.
C13_IntDefaultWhollyParsed ==
  last.op = "BuildRootCommand" =>
    \A pi \in IntFlags(cb[1].config) :
      LET f == NodeAt(cb[1].config, pi[1]).flags[pi[2]] IN
      IF f.default = <<>> \/ IsIntLiteral(f.default)
        THEN /\ last.cmd # <<>>
             /\ CommandAt(last.cmd[1], pi[1]).flags[f.name].default.i =
                  (IF f.default = <<>> THEN 0 ELSE IntLiteralValue(f.default))
        ELSE /\ last.cmd = <<>>
             /\ last.err # <<>>
             /\ last.err[1].kind = "invalid_int_default"
             /\ last.err[1].name = f.name

\* ---------------------------------------------------------------- C14
\* C14: a bool flag is registered with default true exactly when its default text is the
\* literal "true", and with false for every other text; a stringSlice flag is registered
\* with the empty sequence whatever its default text; neither makes the build fail.
C14_BoolAndSliceDefaults ==
  last.op = "BuildRootCommand" =>
    \A p \in NodePaths(cb[1].config) :
      \A i \in 1..Len(NodeAt(cb[1].config, p).flags) :
        LET f == NodeAt(cb[1].config, p).flags[i] IN
        /\ f.type = "bool" =>
             /\ last.err = <<>> /\ last.cmd # <<>>
             /\ CommandAt(last.cmd[1], p).flags[f.name].default.b =
                  (f.default = <<"t", "r", "u", "e">>)
        /\ f.type = "stringSlice" =>
             /\ last.err = <<>> /\ last.cmd # <<>>
             /\ CommandAt(last.cmd[1], p).flags[f.name].default.s = <<>>

\* a is built with a bool flag whose default "TRUE" gives false next to one whose
\* default "true" gives true
C14_Witness ==
  /\ last.op = "BuildRootCommand"
  /\ last.cmd # <<>>
  /\ <<A>> \in NodePaths(cb[1].config)
  /\ Len(NodeAt(cb[1].config, <<A>>).flags) = 2
  /\ NodeAt(cb[1].config, <<A>>).flags[1].type = "bool"
  /\ NodeAt(cb[1].config, <<A>>).flags[1].default = <<"T", "R", "U", "E">>
  /\ NodeAt(cb[1].config, <<A>>).flags[2].default = <<"t", "r", "u", "e">>
  /\ CommandAt(last.cmd[1], <<A>>).flags[F].default.b = FALSE
  /\ CommandAt(last.cmd[1], <<A>>).flags[G].default.b = TRUE

\* ---------------------------------------------------------------- C15
\* the function the registry binds to the run_func of the node at p (none: <<>>)
BoundAt(b, p) ==
  IF NodeAt(b.config, p).run_func = <<>> THEN <<>>
  ELSE <<b.funcMap[NodeAt(b.config, p).run_func]>>

\* the two latest builds both returned a tree
TwoTrees(h) ==
  /\ h.latest # <<>> /\ h.latest[1].cmd # <<>>
  /\ h.earlier # <<>> /\ h.earlier[1].cmd # <<>>

\* the build before the latest failed because the name n was not registered
EarlierUnregistered(h, n) ==
  /\ h.earlier # <<>>
  /\ h.earlier[1].err # <<>>
  /\ h.earlier[1].err[1].kind = "not_registered"
  /\ h.earlier[1].err[1].name = n

DistinctTrees ==
  TwoTrees(held) =>
    Addresses(held.latest[1].cmd[1]) \cap Addresses(held.earlier[1].cmd[1]) = {}

BuiltFromCurrentRegistry ==
  last.op = "BuildRootCommand" =>
    /\ (last.cmd # <<>>) <=> (Unbound(cb[1]) = {} /\ ~SomeFlagFails(cb[1]))
    /\ last.cmd # <<>> =>
         \A p \in NodePaths(cb[1].config) : CommandAt(last.cmd[1], p).RunE = BoundAt(cb[1], p)

RepeatedAfterRegistering ==
  last.op = "BuildRootCommand" =>
    \A n \in FuncNames :
      (EarlierUnregistered(held, n) /\ n \in DOMAIN cb[1].funcMap /\ IsRunE(cb[1].funcMap[n])) =>
        /\ last.err # <<>> => last.err[1].name # n
        /\ (Unbound(cb[1]) = {} /\ ~SomeFlagFails(cb[1])) => last.cmd # <<>>

BlockStarts(c, doc, p) ==
  { k \in 1..Len(doc) :
      IF p = <<>> THEN doc[k].kind = "global_flags"
      ELSE /\ doc[k].kind = "heading"
           /\ doc[k].n = Len(p) + 2
           /\ doc[k].text = CanonicalName(NodeAt(c, p).use, p[Len(p)]) }

\* the flags named in the table rows of the block that starts at line k
RowsOfBlock(doc, k) ==
  { doc[j].text : j \in { i \in (k + 1)..Len(doc) :
      /\ doc[i].kind = "row"
      /\ \A m \in (k + 1)..i : doc[m].kind \notin {"heading", "section", "global_flags"} } }

HiddenNotDocumented ==
  last.op = "GenerateDocs" =>
    \A p \in NodePaths(config) :
      LET n == NodeAt(config, p) IN
      /\ (p # <<>> /\ n.hidden) => BlockStarts(config, last.doc, p) = {}
      /\ \A i \in 1..Len(n.flags) :
           n.flags[i].hidden =>
             \A k \in BlockStarts(config, last.doc, p) : n.flags[i].name \notin RowsOfBlock(last.doc, k)

FlagsOfCommand(cmd) ==
  { cmd.flags[n] : n \in DOMAIN cmd.flags } \cup { cmd.pflags[n] : n \in DOMAIN cmd.pflags }

HiddenKeptInTree ==
  (last.op = "BuildRootCommand" /\ last.cmd # <<>>) =>
    \A p \in NodePaths(cb[1].config) :
      LET n == NodeAt(cb[1].config, p)
          cmd == CommandAt(last.cmd[1], p)
      IN /\ cmd.Hidden = n.hidden
         /\ \A i \in 1..Len(n.flags) :
              \E fl \in FlagsOfCommand(cmd) :
                fl.name = n.flags[i].name /\ fl.hidden = n.flags[i].hidden

\* C16: GenerateDocs emits no heading for a command with hidden: true and no table row
\* (Global Flags included) for a flag with hidden: true, whatever the run_func, required
\* or persistent values; in the built tree the hidden commands and flags are present
\* and marked hidden.
C16_HiddenOmittedFromDocsKeptInTree ==
  HiddenNotDocumented /\ HiddenKeptInTree

\* ---------------------------------------------------------------- C17
\* the root use followed by the names of the commands on the way from the top level
\* down to the command at p
RECURSIVE InvocationPath(_, _, _)
InvocationPath(c, p, i) ==
  IF i = 0 THEN c.root.use
  ELSE InvocationPath(c, p, i - 1)
       \o <<" ">> \o CanonicalName(NodeAt(c, SubSeq(p, 1, i)).use, p[i])

\* the invocation lines shown in the block that starts at line k: the first code line
PathsOfBlock(doc, k) ==
  { doc[j].text : j \in { i \in (k + 1)..Len(doc) :
      /\ doc[i].kind = "code"
      /\ \A m \in (k + 1)..(i - 1) : doc[m].kind \notin {"code", "heading"} } }

\* C17: the invocation path in the block of every documented command, at any depth, is
\* the root use, then each of its ancestors from the top level down, then the command.
C17_PathNamesEveryAncestor ==
  last.op = "GenerateDocs" =>
    \A p \in NodePaths(config) \ {<<>>} :
      \A k \in BlockStarts(config, last.doc, p) :
        PathsOfBlock(last.doc, k) = {InvocationPath(config, p, Len(p))}

\* ---------------------------------------------------------------- C18
\* the commands GenerateDocs shows: not hidden, and below no hidden command
ShownNodes(c) ==
  { p \in NodePaths(c) \ {<<>>} : \A i \in 1..Len(p) : ~NodeAt(c, SubSeq(p, 1, i)).hidden }

\* p comes before q when every level is listed in ascending key order and the
\* subcommands of a command directly after it
ComesBefore(p, q) ==
  \/ Len(p) < Len(q) /\ SubSeq(q, 1, Len(p)) = p
  \/ \E i \in 1..Len(p) :
       /\ i <= Len(q)
       /\ SubSeq(p, 1, i - 1) = SubSeq(q, 1, i - 1)
       /\ StrLess(p[i], q[i])

IsHeading(l) == l.kind = "heading"

Headings(doc) == SelectSeq(doc, IsHeading)

\* C18: the headings of the generated text are those of the shown commands, every level
\* in ascending order of the map keys, the subcommands of a command directly after it,
\* a command at depth d (top level 0) under a heading of d+3 '#' characters.
C18_SortedHeadingsByDepth ==
  last.op = "GenerateDocs" =>
    LET hs == Headings(last.doc)
        shown == ShownNodes(config)
    IN /\ Len(hs) = Cardinality(shown)
       /\ \A p \in shown :
            LET rank == 1 + Cardinality({ q \in shown : ComesBefore(q, p) }) IN
            /\ hs[rank].n = (Len(p) - 1) + 3
            /\ hs[rank].text = CanonicalName(NodeAt(config, p).use, p[Len(p)])

\* nothing is hidden and the key a is shown as z: the headings are z, its subcommands a
\* (with a/a/a) and b, then b
C18_Witness ==
  /\ last.op = "GenerateDocs"
  /\ Cardinality(ShownNodes(config)) = 5
  /\ config.commands[A].use = Z
  /\ Len(Headings(last.doc)) = 5
  /\ Headings(last.doc)[1].text = Z /\ Headings(last.doc)[1].n = 3
  /\ Headings(last.doc)[2].text = A /\ Headings(last.doc)[2].n = 4
  /\ Headings(last.doc)[3].text = A /\ Headings(last.doc)[3].n = 5
  /\ Headings(last.doc)[4].text = B /\ Headings(last.doc)[4].n = 4
  /\ Headings(last.doc)[5].text = B /\ Headings(last.doc)[5].n = 3

\* ---------------------------------------------------------------- C19
\* the characters of a name that are not separators, by position
KeptPositions(name) ==
  LET NotSeparator(i) == ~IsSeparator(name[i])
  IN SelectSeq([i \in 1..Len(name) |-> i], NotSeparator)

\* the identifier the stated rule gives: separators dropped, the first character of the
\* name lower-cased, a character that follows a separator upper-cased, the others kept
CamelRule(name) ==
  LET kept == KeptPositions(name)
  IN [j \in 1..Len(kept) |->
        IF kept[j] = 1 THEN ToLower(name[1])
        ELSE IF IsSeparator(name[kept[j] - 1]) THEN ToUpper(name[kept[j]])
        ELSE name[kept[j]]]

StartsLowerNoSeparator(name) ==
  /\ name # <<>>
  /\ \E i \in 1..Len(LowerCase) : LowerCase[i] = name[1]
  /\ \A i \in 1..Len(name) : ~IsSeparator(name[i])

\* the flag getters of the generated handlers
FlagStmtsOf(code) ==
  UNION { { code[1].handlers[h].Body[i] : i \in 1..Len(code[1].handlers[h].Body) } :
            h \in 1..Len(code[1].handlers) }

CamelExamples ==
  /\ toCamelCase(<<"o", "u", "t", "p", "u", "t", "-", "f", "o", "r", "m", "a", "t">>)
       = <<"o", "u", "t", "p", "u", "t", "F", "o", "r", "m", "a", "t">>
  /\ toCamelCase(<<"m", "y", "_", "f", "l", "a", "g">>)
       = <<"m", "y", "F", "l", "a", "g">>
  /\ toCamelCase(<<"s", "o", "m", "e", "-", "l", "o", "n", "g", "-", "f", "l", "a", "g", "-", "n", "a", "m", "e">>)
       = <<"s", "o", "m", "e", "L", "o", "n", "g", "F", "l", "a", "g", "N", "a", "m", "e">>
  /\ toCamelCase(<<"U", "P", "P", "E", "R">>)
       = <<"u", "P", "P", "E", "R">>
  /\ toCamelCase(<<>>)
       = <<>>

\* C19: the identifier generated for a flag is its name split on '-' and '_', with the
\* first character of the first token lower-cased, the first character of every later
\* token upper-cased, every other character kept, and the tokens concatenated; the
\* listed examples convert as stated and a lower-case name without separators is
\* returned unchanged.
C19_CamelCaseIdentifiers ==
  /\ CamelExamples
  /\ (last.op = "GenerateHandlers" /\ last.code # <<>>) =>
       \A st \in FlagStmtsOf(last.code) :
         st.kind = "flag" =>
           /\ st.ident = CamelRule(st.key)
           /\ StartsLowerNoSeparator(st.key) => st.ident = st.key

\* a generated getter for the flag B-a_ is named bA
C19_Witness ==
  /\ last.op = "GenerateHandlers"
  /\ last.code # <<>>
  /\ \E st \in FlagStmtsOf(last.code) :
       /\ st.kind = "flag"
       /\ st.key = <<"B", "-", "a">>
       /\ st.ident = <<"b", "A">>

\* ---------------------------------------------------------------- C20
\* the nodes of the document, root and descendants, that declare a run_func
HandlerNodes(c) == { p \in NodePaths(c) : NodeAt(c, p).run_func # <<>> }

\* C20: when no node of the config, root or descendant, declares a non-empty run_func,
\* GenerateHandlers returns an error and no source text; a call that returns no error
\* returns source text holding at least one handler.
C20_NothingToGenerateIsAnError ==
  last.op = "GenerateHandlers" =>
    /\ HandlerNodes(config) = {} => (last.generr # <<>> /\ last.code = <<>>)
    /\ last.generr = <<>> => (last.code # <<>> /\ last.code[1].handlers # <<>>)

\* GenerateHandlers has returned an error and no text for a document whose nodes, down
\* to the nested command a/a, declare no run_func
C20_Witness ==
  /\ last.op = "GenerateHandlers"
  /\ <<A, A>> \in NodePaths(config)
  /\ HandlerNodes(config) = {}
  /\ last.generr # <<>>
  /\ last.code = <<>>

\* ---------------------------------------------------------------- C21
\* the statements of one kind in a handler body, in order
StmtsOfKind(body, kind) ==
  LET OfKind(st) == st.kind = kind IN SelectSeq(body, OfKind)

\* the accessor that reads a flag of a given type
NamedGetter(type) ==
  CASE type = "bool" -> "GetBool"
    [] type = "string" -> "GetString"
    [] type = "int" -> "GetInt"
    [] type = "stringSlice" -> "GetStringSlice"

ExactCount(args) == IF args[1].count > 0 THEN args[1].count ELSE 0

\* the handler h is the one generated for the node at p
HandlerMatchesNode(h, node) ==
  LET argSt == StmtsOfKind(h.Body, "arg")
      flagSt == StmtsOfKind(h.Body, "flag")
  IN /\ (node.args # <<>> /\ node.args[1].type = ArgsTypeExact) =>
          /\ Len(argSt) = ExactCount(node.args)
          /\ \A i \in 1..Len(argSt) :
               argSt[i].ident = <<"arg">> /\ argSt[i].index = i - 1 /\ argSt[i].call = "args"
          /\ \A i \in 1..Len(argSt), k \in 0..MaxArgs :
               ArityPolicy(node.args, k) => argSt[i].index < k
     /\ Len(flagSt) = Len(node.flags)
     /\ \A i \in 1..Len(flagSt) :
          /\ flagSt[i].key = node.flags[i].name
          /\ flagSt[i].call = NamedGetter(node.flags[i].type)

\* C21: the handler generated for a node whose args are exact with count N extracts
\* arg0 .. arg(N-1) and nothing else, so no index the arity policy does not guarantee,
\* and holds one type-specific accessor per flag, keyed by the flag's literal name.
C21_ExactArgsAndFlagGetters ==
  (last.op = "GenerateHandlers" /\ last.code # <<>>) =>
    \A i \in 1..Len(last.code[1].handlers), p \in HandlerNodes(config) :
      NodeAt(config, p).run_func = last.code[1].handlers[i].Name =>
        HandlerMatchesNode(last.code[1].handlers[i], NodeAt(config, p))

\* the handler g was generated for exact count 2 and two flags: arg0, arg1, GetStringSlice
\* and GetBool
C21_Witness ==
  /\ last.op = "GenerateHandlers"
  /\ last.code # <<>>
  /\ NodeAt(config, <<A>>).args = <<ArgsConfig(ArgsTypeExact, 2, 0, 0)>>
  /\ \E i \in 1..Len(last.code[1].handlers) :
       LET h == last.code[1].handlers[i] IN
       /\ h.Name = G
       /\ Len(StmtsOfKind(h.Body, "arg")) = 2
       /\ StmtsOfKind(h.Body, "arg")[2].index = 1
       /\ Len(StmtsOfKind(h.Body, "flag")) = 2
       /\ StmtsOfKind(h.Body, "flag")[1].call = "GetStringSlice"
       /\ StmtsOfKind(h.Body, "flag")[2].call = "GetBool"

\* ---------------------------------------------------------------- C22
SomeOutputExists(files) == files.handlers # <<>> \/ files.main # <<>>

IsGenerated(file) == file # <<>> /\ file[1].kind = "generated"

BothWritten(files) == IsGenerated(files.handlers) /\ IsGenerated(files.main)

\* C22 as stated: without --force a run that finds an output file changes nothing,
\* prints a preview and succeeds; with --force, or with no output file, it writes both
\* files.
C22_NoOverwriteWithoutForce ==
  [][ last'.op = "gen" =>
        /\ (SomeOutputExists(disk) /\ ~last'.force) =>
             (disk' = disk /\ last'.out = "preview" /\ last'.generr = <<>>)
        /\ (last'.force \/ ~SomeOutputExists(disk)) => BothWritten(disk')
    ]_vars

\* each file after a run is the file before it or generated text
OnlyWrites(old, new) ==
  /\ new.handlers = old.handlers \/ IsGenerated(new.handlers)
  /\ new.main = old.main \/ IsGenerated(new.main)
  /\ new.handlersWritable = old.handlersWritable
  /\ new.mainWritable = old.mainWritable

\* C22, amended: without --force a run that finds an output file changes nothing, and
\* prints a preview and succeeds unless the config cannot be loaded or has nothing to
\* generate; with --force, or with no output file, a run that succeeds has written both
\* files, a run of a loaded config fails only when there is nothing to generate or a
\* write fails, and a failed run leaves each file as it was or newly written.
C22_NoOverwriteWithoutForceUnlessError ==
  [][ last'.op = "gen" =>
        /\ (SomeOutputExists(disk) /\ ~last'.force) =>
             /\ disk' = disk
             /\ last'.generr = <<>> => last'.out = "preview"
             /\ last'.generr # <<>> =>
                  (last'.generr = <<"load">> \/ HandlerNodes(config) = {})
        /\ (last'.force \/ ~SomeOutputExists(disk)) =>
             /\ last'.generr = <<>> => BothWritten(disk')
             /\ last'.generr # <<>> =>
                  /\ OnlyWrites(disk, disk')
                  /\ \/ last'.generr = <<"load">>
                     \/ HandlerNodes(config) = {}
                     \/ ~(disk.handlersWritable /\ disk.mainWritable)
    ]_vars

\* a run without --force has found the user's handlers file, printed the preview and
\* left the file and the absent main file as they were
C22_Witness ==
  /\ last.op = "gen"
  /\ ~last.force
  /\ last.out = "preview"
  /\ disk.handlers = <<Original>>
  /\ disk.main = <<>>

\* ---------------------------------------------------------------- C23
ConfigReaders == {"ValidateConfig", "BuildRootCommand", "GenerateDocs"}

NodeFails(b, p) ==
  RunFuncFailure(b, p) # "" \/ addFlags(NodeAt(b.config, p).flags).err # <<>>

\* the top-level commands whose build fails
FailingSiblings(b) ==
  { k \in DOMAIN b.config.commands :
      \E p \in NodePaths(b.config) : p # <<>> /\ p[1] = k /\ NodeFails(b, p) }

\* C24: when the build fails in the top-level commands, the error returned is that of
\* the failing command that comes first in key order, whatever the call.
C24_FirstSiblingInKeyOrderFails ==
  (last.op = "BuildRootCommand" /\ last.err # <<>> /\ last.err[1].wrap # <<>>) =>
    \A k \in FailingSiblings(cb[1]) :
      k = last.err[1].wrap[1] \/ StrLess(last.err[1].wrap[1], k)

\* ---------------------------------------------------------------- C25
FlagTypes == {"string", "bool", "int", "stringSlice"}

\* the nodes that declare a flag of a type outside the four supported ones
UnsupportedNodes(c) ==
  { p \in NodePaths(c) :
      \E i \in 1..Len(NodeAt(c, p).flags) : NodeAt(c, p).flags[i].type \notin FlagTypes }

\* no violation of ValidateConfig is about a flag type
NoTypeViolation(verr) ==
  \A i \in 1..Len(ErrorsOf(verr)) : ErrorsOf(verr)[i].kind # "flag_type_required"

C26_AcceptedUseHasAName ==
  (last.op = "ValidateConfig" /\ last.verr = <<>>) =>
    \A p \in NodePaths(config) : Fields(NodeAt(config, p).use) # <<>>

\* ---------------------------------------------------------------- C27
\* C27: the path of a violation names one node: two nodes never get the same path
\* string, so no two violations of the same kind that a node raises at most once (a
\* missing short) carry the same path.
C27_PathNamesOneNode ==
  last.op = "ValidateConfig" =>
    /\ \A p, q \in NodePaths(config) : p # q => PathString(p) # PathString(q)
    /\ \A i, j \in 1..Len(ErrorsOf(last.verr)) :
         (i # j /\ ErrorsOf(last.verr)[i].kind = "short_required"
                /\ ErrorsOf(last.verr)[j].kind = "short_required") =>
           ErrorsOf(last.verr)[i].path # ErrorsOf(last.verr)[j].path

\* ---------------------------------------------------------------- C28
\* the commands that are not hidden themselves but lie below a hidden command
BelowHidden(c) ==
  { p \in NodePaths(c) \ {<<>>} :
      /\ ~NodeAt(c, p).hidden
      /\ \E i \in 1..(Len(p) - 1) : NodeAt(c, SubSeq(p, 1, i)).hidden }

\* the flags that may appear in a table: the visible flags of the root and of the
\* shown commands
DocumentedFlags(c) ==
  { <<p, i>> \in ({<<>>} \cup ShownNodes(c)) \X (1..MaxFlags) :
      i <= Len(NodeAt(c, p).flags) /\ ~NodeAt(c, p).flags[i].hidden }

IsRow(l) == l.kind = "row"

\* C28: a command below a hidden command gets no heading although it is not hidden
\* itself, and the tables hold one row per visible flag of the root and of the shown
\* commands, so none for a flag of a command in a hidden subtree.
C28_HiddenSubtreeOmitted ==
  last.op = "GenerateDocs" =>
    /\ \A p \in BelowHidden(config) : BlockStarts(config, last.doc, p) = {}
    /\ Len(Headings(last.doc)) = Cardinality(ShownNodes(config))
    /\ Len(SelectSeq(last.doc, IsRow)) = Cardinality(DocumentedFlags(config))

\* a is hidden, its subcommands a and b and the grandchild a/a/a are not and two of
\* them have flags: the text holds the heading of b only and the rows of the root
C28_Witness ==
  /\ last.op = "GenerateDocs"
  /\ config.commands[A].hidden
  /\ BelowHidden(config) = {<<A, A>>, <<A, B>>, <<A, A, A>>}
  /\ config.commands[A].commands[B].flags # <<>>
  /\ Len(Headings(last.doc)) = 1
  /\ Headings(last.doc)[1].text = B
  /\ Len(SelectSeq(last.doc, IsRow)) = 2

\* ---------------------------------------------------------------- C29
RegistryWriters == {"RegisterFunction", "NewCommandBuilder", "NewCommandBuilderFromString"}

\* C29: a RegisterFunction call makes the registry map the name to the value passed,
\* replacing an entry the name already had and leaving the entries of all other
\* names as they were; no call other than RegisterFunction changes the registry of
\* a builder, so the registry maps each name to the value of the most recent call
\* for it; and a build that succeeds binds exactly the registered value to every
\* node whose run_func is that name.
C29_LastRegistrationWins ==
  [][ /\ last'.op = "RegisterFunction" =>
           /\ DOMAIN cb'[1].funcMap = DOMAIN cb[1].funcMap \cup {last'.name}
           /\ cb'[1].funcMap[last'.name] = last'.fn
           /\ \A n \in DOMAIN cb[1].funcMap \ {last'.name} :
                cb'[1].funcMap[n] = cb[1].funcMap[n]
      /\ (cb # <<>> /\ last'.op \notin RegistryWriters) =>
           (cb' # <<>> /\ cb'[1].funcMap = cb[1].funcMap)
      /\ (last'.op = "BuildRootCommand" /\ last'.cmd # <<>>) =>
           \A p \in NodePaths(cb'[1].config) :
             NodeAt(cb'[1].config, p).run_func # <<>> =>
               /\ NodeAt(cb'[1].config, p).run_func \in DOMAIN cb'[1].funcMap
               /\ CommandAt(last'.cmd[1], p).RunE =
                    <<cb'[1].funcMap[NodeAt(cb'[1].config, p).run_func]>>
    ]_vars

\* f was registered as h1 and built, then registered again as h2: the second build
\* binds h2 to the root and to a, the tree of the first build still holds h1
C29_Witness ==
  /\ last.op = "BuildRootCommand"
  /\ last.cmd # <<>>
  /\ cb[1].config.root.run_func = F
  /\ cb[1].config.commands[A].run_func = F
  /\ cb[1].funcMap[F] = "h2"
  /\ last.cmd[1].RunE = <<"h2">>
  /\ CommandAt(last.cmd[1], <<A>>).RunE = <<"h2">>
  /\ held.earlier # <<>>
  /\ held.earlier[1].cmd # <<>>
  /\ held.earlier[1].cmd[1].RunE = <<"h1">>

\* ---------------------------------------------------------------- C30
\* the text the templates give for the configuration, before the clean-up
RenderedText(c) == String(docsTemplate(collectDocsConfig(c)))

\* C30: the clean-up loop of renderDocsTemplate is left by its own condition after
\* fewer passes than the rendered text has characters, and the documentation that
\* GenerateDocs returns is the text the loop ends with: it never holds three
\* newline characters in a row, whether the run came from the templates or from a
\* description or long text of the user.
C30_CleanupEndsWithoutTripleNewline ==
  last.op = "GenerateDocs" =>
    LET r == cleanupLoop(RenderedText(config), Len(RenderedText(config))) IN
    /\ r.exits
    /\ ~Contains(r.text, <<NL, NL, NL>>)
    /\ String(last.doc) = r.text
    /\ ~Contains(String(last.doc), <<NL, NL, NL>>)

\* a description with five newline characters between two words and a long text of
\* four newline characters: the loop needs more than one pass, and the two words of
\* the description end up one blank line apart
C30_Witness ==
  /\ last.op = "GenerateDocs"
  /\ config.description = <<"s", NL, NL, NL, NL, NL, "s">>
  /\ config.commands[A].long = <<NL, NL, NL, NL>>
  /\ Contains(RenderedText(config), <<NL, NL, NL, NL, NL>>)
  /\ Contains(ReplaceAll(RenderedText(config), <<NL, NL, NL>>, <<NL, NL>>), <<NL, NL, NL>>)
  /\ \E i \in 1..(Len(last.doc) - 2) :
       /\ last.doc[i] = Line("description", 0, S)
       /\ last.doc[i + 1] = Blank
       /\ last.doc[i + 2] = Line("description", 0, S)

====
